---------------------------- MODULE Spec2Model ----------------------------
(***************************************************************************)
(* The re_parse! pipeline of regex-parse: tokenizer, recursive-descent     *)
(* parser, NFA construction, subset construction with minimisation, code   *)
(* generation, and the scanner the generated code implements.              *)
(*                                                                         *)
(* Conventions.                                                            *)
(*  - A char is its Unicode scalar value; a String is a sequence of chars. *)
(*  - An arena is a sequence; an ArenaIndex is the Rust index plus one, so *)
(*    the order of indices is the order of the Rust indices.  0 stands for *)
(*    Option::None of an index.                                            *)
(*  - Records of one type always carry the same fields, so that any two    *)
(*    values of the type can be compared.                                  *)
(***************************************************************************)
EXTENDS Integers, Sequences, FiniteSets, TLC

(***************************************************************************)
(* Characters                                                              *)
(***************************************************************************)

\* The printable ASCII characters in code-point order, U+0020 .. U+007E (the
\* grave accent, U+0060, is spelled out).
Ascii ==
  << " ", "!", "\"", "#", "$", "%", "&", "'", "(", ")", "*", "+", ",", "-", ".", "/",
     "0", "1", "2", "3", "4", "5", "6", "7", "8", "9", ":", ";", "<", "=", ">", "?",
     "@", "A", "B", "C", "D", "E", "F", "G", "H", "I", "J", "K", "L", "M", "N", "O",
     "P", "Q", "R", "S", "T", "U", "V", "W", "X", "Y", "Z", "[", "\\", "]", "^", "_",
     "grave", "a", "b", "c", "d", "e", "f", "g", "h", "i", "j", "k", "l", "m", "n", "o",
     "p", "q", "r", "s", "t", "u", "v", "w", "x", "y", "z", "{", "|", "}", "~" >>

\* The scalar value of a one-character literal.
Ch(s) == 31 + (CHOOSE i \in 1..Len(Ascii) : Ascii[i] = s)

\* A Rust string literal, written as a tuple of one-character literals.
Str(t) == [i \in 1..Len(t) |-> Ch(t[i])]

\* Sequences over S of length at most n.
SeqsUpTo(S, n) == UNION { [1..k -> S] : k \in 0..n }

Last(s) == s[Len(s)]
Front(s) == SubSeq(s, 1, Len(s) - 1)

(***************************************************************************)
(* tokenizer.rs                                                            *)
(***************************************************************************)

\* enum Token.  t is the variant; c the char of Token::Char; p the payload
\* variant of Token::CharacterClass and Token::Postfix.
Token(t, c, p) == [t |-> t, c |-> c, p |-> p]
TokChar(c) == Token("Char", c, "")
TokDot == Token("Dot", 0, "")
TokCharacterClass(class) == Token("CharacterClass", 0, class)
TokLeftBrace == Token("LeftBrace", 0, "")
TokRightBrace == Token("RightBrace", 0, "")
TokLeftParenthesis == Token("LeftParenthesis", 0, "")
TokRightParenthesis == Token("RightParenthesis", 0, "")
TokLeftBracket == Token("LeftBracket", 0, "")
TokRightBracket == Token("RightBracket", 0, "")
TokMinus == Token("Minus", 0, "")
TokPostfix(postfix_token) == Token("Postfix", 0, postfix_token)
TokPipe == Token("Pipe", 0, "")
TokEof == Token("Eof", 0, "")

\* Token::is_valid_after_value
is_valid_after_value(token) ==
  token.t \in {"Char", "Dot", "CharacterClass", "LeftBrace", "LeftParenthesis", "LeftBracket"}

\* enum RegexPattern (regex.rs).  Range(start, end) keeps both chars.
Pattern(k, start, end) == [k |-> k, start |-> start, end |-> end]
PatChar(c) == Pattern("Char", c, c)
PatRange(start, end) == Pattern("Range", start, end)
PatAnyChar == Pattern("AnyChar", 0, 0)
PatAnyCharLazy == Pattern("AnyCharLazy", 0, 0)

\* An as_patterns that gives every class the patterns of Digit.
as_patterns_digit(class) == << PatRange(Ch("0"), Ch("9")) >>

\* CharacterClass::as_patterns.  CR = 13, LF = 10, TAB = 9.
as_patterns(class) ==
  CASE class = "Whitespace" -> << PatChar(13), PatChar(10), PatChar(9), PatChar(Ch(" ")) >>
    [] class = "Digit" -> << PatRange(Ch("0"), Ch("9")) >>
    [] class = "Word" -> << PatRange(Ch("a"), Ch("z")), PatRange(Ch("A"), Ch("Z")),
                            PatRange(Ch("0"), Ch("9")), PatChar(Ch("_")) >>

\* impl Display for Token: the text of a token.
TokenToString(token) ==
  CASE token.t = "Char" -> << token.c >>
    [] token.t = "Dot" -> Str(<< "." >>)
    [] token.t = "CharacterClass" ->
         ( CASE token.p = "Whitespace" -> Str(<< "\\", "s" >>)
             [] token.p = "Digit" -> Str(<< "\\", "d" >>)
             [] token.p = "Word" -> Str(<< "\\", "w" >>) )
    [] token.t = "LeftBrace" -> Str(<< "{" >>)
    [] token.t = "RightBrace" -> Str(<< "}" >>)
    [] token.t = "LeftParenthesis" -> Str(<< "(" >>)
    [] token.t = "RightParenthesis" -> Str(<< ")" >>)
    [] token.t = "LeftBracket" -> Str(<< "[" >>)
    [] token.t = "RightBracket" -> Str(<< "]" >>)
    [] token.t = "Minus" -> Str(<< "-" >>)
    [] token.t = "Postfix" ->
         ( CASE token.p = "QuestionMark" -> Str(<< "?" >>)
             [] token.p = "Star" -> Str(<< "*" >>)
             [] token.p = "Plus" -> Str(<< "+" >>) )
    [] token.t = "Pipe" -> Str(<< "|" >>)
    [] token.t = "Eof" -> Str(<< "<", "E", "O", "F", ">" >>)

\* The token an escape `\next` yields.
EscapeToken(next) ==
  CASE next = Ch("s") -> TokCharacterClass("Whitespace")
    [] next = Ch("d") -> TokCharacterClass("Digit")
    [] next = Ch("w") -> TokCharacterClass("Word")
    [] OTHER -> TokChar(next)

\* The token of a char that does not start an escape.
PlainToken(char) ==
  CASE char = Ch("{") -> TokLeftBrace
    [] char = Ch("}") -> TokRightBrace
    [] char = Ch("(") -> TokLeftParenthesis
    [] char = Ch(")") -> TokRightParenthesis
    [] char = Ch("[") -> TokLeftBracket
    [] char = Ch("]") -> TokRightBracket
    [] char = Ch("-") -> TokMinus
    [] char = Ch("?") -> TokPostfix("QuestionMark")
    [] char = Ch("*") -> TokPostfix("Star")
    [] char = Ch("+") -> TokPostfix("Plus")
    [] char = Ch("|") -> TokPipe
    [] char = Ch(".") -> TokDot
    [] OTHER -> TokChar(char)

\* Tokenizer::next, run to exhaustion: the tokens of chars[i..].  A `\` with
\* nothing after it ends the iterator (it returns None).
RECURSIVE TokenizeFrom(_, _)
TokenizeFrom(chars, i) ==
  IF i > Len(chars) THEN << >>
  ELSE IF chars[i] = Ch("\\")
       THEN IF i + 1 > Len(chars) THEN << >>
            ELSE << EscapeToken(chars[i + 1]) >> \o TokenizeFrom(chars, i + 2)
       ELSE << PlainToken(chars[i]) >> \o TokenizeFrom(chars, i + 1)

tokenize(input) == TokenizeFrom(input, 1)

(***************************************************************************)
(* regex.rs: the syntax tree                                               *)
(***************************************************************************)

NoPattern == Pattern("None", 0, 0)

\* struct RegexVariable { name, kind }, kind one of Singular, Multiple.
RegexVariable(name, kind) == [name |-> name, kind |-> kind]
NoVariable == RegexVariable(<< >>, "None")

\* enum RegexNode.  children holds the Vec of And and Or, and the one child
\* of ZeroOrOne, Many and OneOrMore.
RegexNode(type, children, pat, var) ==
  [type |-> type, children |-> children, pat |-> pat, var |-> var]
NodeAnd(nodes) == RegexNode("And", nodes, NoPattern, NoVariable)
NodeOr(nodes) == RegexNode("Or", nodes, NoPattern, NoVariable)
NodeLiteral(pat) == RegexNode("Literal", << >>, pat, NoVariable)
NodeVariable(var) == RegexNode("Variable", << >>, NoPattern, var)
NodeUnary(type, child) == RegexNode(type, << child >>, NoPattern, NoVariable)

\* The concatenation of the strings of a Vec of strings.
RECURSIVE Concat(_)
Concat(strings) ==
  IF Len(strings) = 0 THEN << >> ELSE Head(strings) \o Concat(Tail(strings))

\* impl Display for RegexDisplay: the text `fmt` writes for a node.
RECURSIVE fmt(_, _)
fmt(arena, node_idx) ==
  LET node == arena[node_idx]
      nodes == node.children
  IN CASE node.type = "And" ->
            Concat([i \in 1..Len(nodes) |-> fmt(arena, nodes[i])])
       [] node.type = "Or" ->
            Concat([i \in 1..Len(nodes) |->
                      fmt(arena, nodes[i])
                      \o (IF i + 1 <= Len(nodes) THEN << Ch("|") >> ELSE << >>)])
       [] node.type = "Literal" ->
            ( CASE node.pat.k = "Char" -> << node.pat.start >>
                [] node.pat.k = "Range" -> << node.pat.start, Ch("-"), node.pat.end >>
                [] OTHER -> << Ch(".") >> )
       [] node.type = "Variable" ->
            ( IF node.var.kind = "Singular"
                THEN << Ch("{") >> \o node.var.name \o << Ch("}") >>
                ELSE << Ch("{") >> \o node.var.name \o << Ch("*"), Ch("}") >> )
       [] node.type = "ZeroOrOne" -> fmt(arena, nodes[1]) \o << Ch("?") >>
       [] node.type = "Many" -> fmt(arena, nodes[1]) \o << Ch("*") >>
       [] node.type = "OneOrMore" -> fmt(arena, nodes[1]) \o << Ch("+") >>

\* impl Display for Regex
to_string(regex) == fmt(regex.arena, regex.root)

(***************************************************************************)
(* parser.rs                                                               *)
(*                                                                         *)
(* A parser value is the struct RegexParser plus the Result of the call    *)
(* that produced it: err.kind is "None" after Ok, a ParseError variant     *)
(* after Err (the `?` operator hands it on unchanged), and "Panic" when an *)
(* assert! or expect() inside the parser fails.                            *)
(***************************************************************************)

ParseError(kind, got, expected) == [kind |-> kind, got |-> got, expected |-> expected]
NoError == ParseError("None", TokEof, TokEof)
Panic == ParseError("Panic", TokEof, TokEof)

RegexParser(source) ==
  [source |-> source, nodes |-> << >>, stack |-> << << >> >>, err |-> NoError]

IsOk(p) == p.err.kind = "None"
Fail(p, err) == [p EXCEPT !.err = err]

\* RegexParser::peek
peek(p) == IF Len(p.source) = 0 THEN TokEof ELSE Head(p.source)

\* RegexParser::consume; the token it returns is peek(p).
consume(p) == IF Len(p.source) = 0 THEN p ELSE [p EXCEPT !.source = Tail(@)]

\* RegexParser::expect
expect(p, token) ==
  LET next == peek(p) IN
  IF next # token
    THEN Fail(consume(p), ParseError("UnexpectedToken", next, token))
    ELSE consume(p)

\* RegexParser::push_node_idx
push_node_idx(p, idx) ==
  IF Len(p.stack) = 0 THEN Fail(p, Panic)
  ELSE [p EXCEPT !.stack[Len(p.stack)] = Append(@, idx)]

\* Arena::add on the parser's arena; the new index is Len(nodes) + 1.
add_node(p, node) == [p EXCEPT !.nodes = Append(@, node)]

\* RegexParser::push_node
push_node(p, node) == push_node_idx(add_node(p, node), Len(p.nodes) + 1)

\* RegexParser::push_row
push_row(p) == [p EXCEPT !.stack = Append(@, << >>)]

\* RegexParser::pop_row; the row it returns is Last(p.stack).
pop_row(p) ==
  IF Len(p.stack) = 0 THEN Fail(p, Panic) ELSE [p EXCEPT !.stack = Front(@)]

\* RegexParser::pop_single; the index it returns is Last(Last(p.stack)).
pop_single(p) ==
  IF Len(p.stack) = 0 \/ Len(Last(p.stack)) = 0 THEN Fail(p, Panic)
  ELSE [p EXCEPT !.stack[Len(p.stack)] = Front(@)]

\* The `?` operator on a Result: go on with the Ok value, return an Err
\* unchanged.
and_then(q, F(_)) == IF IsOk(q) THEN F(q) ELSE q

\* `let r = ...;` followed by the statements F that read r: r is computed
\* once, before the statements.
bind(r, F(_)) == CHOOSE result \in { F(value) : value \in {r} } : TRUE

\* consume_as_char: [p, char].  Err(UnexpectedRightBracket) leaves the token
\* in place; otherwise the token is consumed and single_char of its text
\* asserts that the text is one char long.
consume_as_char(p) ==
  IF peek(p).t \in {"Eof", "RightBracket"}
    THEN [p |-> Fail(p, ParseError("UnexpectedRightBracket", TokEof, TokEof)), char |-> 0]
    ELSE bind(TokenToString(peek(p)), LAMBDA input :
           IF Len(input) # 1
             THEN [p |-> Fail(consume(p), Panic), char |-> 0]
             ELSE [p |-> consume(p), char |-> input[1]])

\* RegexParser::parse_postfix
parse_postfix(p) ==
  LET token == peek(p)
      q == consume(p)
  IN IF token.t # "Postfix"
       THEN Fail(q, ParseError("ExpectedPostfixOperator", token, TokEof))
       ELSE LET node == CASE token.p = "QuestionMark" -> "ZeroOrOne"
                          [] token.p = "Star" -> "Many"
                          [] token.p = "Plus" -> "OneOrMore"
            IN and_then(pop_single(q), LAMBDA r :
                 push_node(r, NodeUnary(node, Last(Last(q.stack)))))

\* `if matches!(self.peek(), Token::Postfix(_)) { self.parse_postfix()?; }`
optional_postfix(p) ==
  IF IsOk(p) /\ peek(p).t = "Postfix" THEN parse_postfix(p) ELSE p

\* RegexParser::parse_char
parse_char(p) ==
  LET token == peek(p)
      q == consume(p)
  IN CASE token.t = "Char" -> optional_postfix(push_node(q, NodeLiteral(PatChar(token.c))))
       [] token.t = "Dot" -> optional_postfix(push_node(q, NodeLiteral(PatAnyChar)))
       [] OTHER -> Fail(q, ParseError("ExpectedChar", token, TokEof))

\* RegexParser::parse_ident: [p, ident]
RECURSIVE parse_ident_loop(_, _)
parse_ident_loop(p, ident) ==
  IF peek(p).t = "Char"
    THEN parse_ident_loop(consume(p), Append(ident, peek(p).c))
    ELSE [p |-> p, ident |-> ident]

parse_ident(p) ==
  bind(parse_ident_loop(p, << >>), LAMBDA r :
    IF Len(r.ident) = 0
      THEN [p |-> Fail(r.p, ParseError("ExpectedIdent", peek(r.p), TokEof)), ident |-> << >>]
      ELSE r)

\* RegexParser::parse_variable.  The node is built from the identifier alone:
\* the parser has no path that yields VariableKind::Multiple, and after the
\* identifier only `}` is accepted.
parse_variable(p) ==
  and_then(expect(p, TokLeftBrace), LAMBDA q :
    bind(parse_ident(q), LAMBDA r :
      IF ~IsOk(r.p) THEN r.p
      ELSE and_then(push_node(r.p, NodeVariable(RegexVariable(r.ident, "Singular"))),
                    LAMBDA s : expect(s, TokRightBrace))))

\* RegexParser::parse_group_inner, the `while let Ok(char)` loop: [p, chars].
\* The Err that ends the loop is dropped; an Err of the range's second
\* consume_as_char is returned.
RECURSIVE parse_group_chars(_, _)
parse_group_chars(p, chars) ==
  bind(consume_as_char(p), LAMBDA r :
    IF r.p.err.kind = "Panic" THEN [p |-> r.p, chars |-> chars]
    ELSE IF ~IsOk(r.p) THEN [p |-> p, chars |-> chars]
    ELSE IF peek(r.p) = TokMinus
      THEN bind(consume_as_char(consume(r.p)), LAMBDA f :
             IF ~IsOk(f.p) THEN [p |-> f.p, chars |-> chars]
             ELSE parse_group_chars(add_node(f.p, NodeLiteral(PatRange(r.char, f.char))),
                                    Append(chars, Len(f.p.nodes) + 1)))
      ELSE parse_group_chars(add_node(r.p, NodeLiteral(PatChar(r.char))),
                             Append(chars, Len(r.p.nodes) + 1)))

\* RegexParser::parse_group_inner
parse_group_inner(p) ==
  bind(parse_group_chars(p, << >>), LAMBDA r :
    IF ~IsOk(r.p) THEN r.p
    ELSE IF Len(r.chars) = 1 THEN push_node_idx(r.p, r.chars[1])
    ELSE push_node(r.p, NodeOr(r.chars)))

\* RegexParser::parse_group
parse_group(p) ==
  and_then(expect(p, TokLeftBracket), LAMBDA q :
    and_then(parse_group_inner(q), LAMBDA r :
      optional_postfix(expect(r, TokRightBracket))))

\* Arena::add of one Literal per pattern of a class: [p, nodes].
RECURSIVE add_patterns(_, _, _)
add_patterns(p, patterns, nodes) ==
  IF Len(patterns) = 0 THEN [p |-> p, nodes |-> nodes]
  ELSE add_patterns(add_node(p, NodeLiteral(Head(patterns))), Tail(patterns),
                    Append(nodes, Len(p.nodes) + 1))

\* A class shortcut in value position: the Or of the Literals of
\* CharacterClass::as_patterns, then an optional postfix operator.
parse_character_class(p) ==
  bind(add_patterns(consume(p), as_patterns(peek(p).p), << >>), LAMBDA r :
    optional_postfix(push_node(r.p, NodeOr(r.nodes))))

RECURSIVE parse_regex(_), parse_or(_), parse_or_loop(_), parse_and(_)
RECURSIVE parse_and_loop(_), parse_value(_), parse_parenthesis(_)

\* RegexParser::parse_regex
parse_regex(p) == parse_or(p)

\* The `loop` of parse_or.
parse_or_loop(p) ==
  and_then(parse_and(p), LAMBDA q :
    IF peek(q) = TokPipe THEN parse_or_loop(consume(q)) ELSE q)

\* The end of parse_or and of parse_and without the `[single]` arm: the row
\* always becomes an And / Or node.
close_row_no_single(p, type) ==
  LET nodes == Last(p.stack) IN
  and_then(pop_row(p), LAMBDA q :
    push_node(q, RegexNode(type, nodes, NoPattern, NoVariable)))

\* The end of parse_or and of parse_and: pop the row and push the single
\* node in it, or else the And / Or of the row.
close_row(p, type) ==
  LET nodes == Last(p.stack) IN
  and_then(pop_row(p), LAMBDA q :
    IF Len(nodes) = 1 THEN push_node_idx(q, nodes[1])
    ELSE push_node(q, RegexNode(type, nodes, NoPattern, NoVariable)))

\* RegexParser::parse_or
parse_or(p) == and_then(parse_or_loop(push_row(p)), LAMBDA q : close_row(q, "Or"))

\* The `loop` of parse_and.
parse_and_loop(p) ==
  and_then(parse_value(p), LAMBDA q :
    IF is_valid_after_value(peek(q)) THEN parse_and_loop(q) ELSE q)

\* RegexParser::parse_and
parse_and(p) == and_then(parse_and_loop(push_row(p)), LAMBDA q : close_row(q, "And"))

\* RegexParser::parse_value
parse_value(p) ==
  LET token == peek(p) IN
  CASE token.t = "Eof" -> p
    [] token.t \in {"Char", "Dot"} -> parse_char(p)
    [] token.t = "CharacterClass" -> parse_character_class(p)
    [] token.t = "RightBrace" -> Fail(p, ParseError("UnexpectedRightBrace", TokEof, TokEof))
    [] token.t = "LeftBrace" -> parse_variable(p)
    [] token.t = "LeftParenthesis" -> parse_parenthesis(p)
    [] token.t = "RightParenthesis" ->
         Fail(p, ParseError("UnexpectedRightParenthesis", TokEof, TokEof))
    [] token.t = "LeftBracket" -> parse_group(p)
    [] token.t = "RightBracket" -> Fail(p, ParseError("UnexpectedRightBracket", TokEof, TokEof))
    [] token.t = "Minus" -> Fail(p, ParseError("UnexpectedMinus", TokEof, TokEof))
    [] token.t = "Pipe" -> Fail(p, ParseError("UnexpectedBar", TokEof, TokEof))
    [] token.t = "Postfix" -> Fail(p, ParseError("UnexpectedPostfixToken", token, TokEof))

\* RegexParser::parse_parenthesis
parse_parenthesis(p) ==
  and_then(expect(p, TokLeftParenthesis), LAMBDA q :
    and_then(parse_regex(q), LAMBDA r :
      optional_postfix(expect(r, TokRightParenthesis))))

\* struct Regex { arena, root } as Result<Regex, ParseError>: err.kind is
\* "None" for Ok.
RegexResult(err, arena, root) == [err |-> err, arena |-> arena, root |-> root]

\* RegexParser::parse
parse(source) ==
  bind(parse_regex(RegexParser(source)), LAMBDA p :
    IF ~IsOk(p) THEN RegexResult(p.err, << >>, 0)
    ELSE IF peek(p) # TokEof
      THEN RegexResult(ParseError("ExpectedEof", peek(p), TokEof), << >>, 0)
    ELSE IF Len(p.stack) = 0 \/ Len(Last(p.stack)) = 0 THEN RegexResult(Panic, << >>, 0)
    ELSE IF ~(Len(p.stack) = 1 /\ Len(p.stack[1]) = 1) THEN RegexResult(Panic, << >>, 0)
    ELSE RegexResult(NoError, p.nodes, Last(Last(p.stack))))

\* Regex::from_str
from_str(input) == parse(tokenize(input))


(***************************************************************************)
(* nfa.rs                                                                  *)
(***************************************************************************)

\* NfaEdge::Epsilon; NfaEdge::Pattern(p) is the pattern p itself.
Epsilon == Pattern("Epsilon", 0, 0)

\* NfaEdge::is_epsilon
is_epsilon(edge_kind) == edge_kind.k = "Epsilon"

\* struct NfaNode.  kind is Simple or Variable; var is the RegexVariable of
\* NfaNodeKind::Variable.
NfaNode(edges, edge_kind, kind, var, is_accepting) ==
  [edges |-> edges, edge_kind |-> edge_kind, kind |-> kind, var |-> var,
   is_accepting |-> is_accepting]

\* NfaNode::EPSILON
EPSILON == NfaNode(<< >>, Epsilon, "Simple", NoVariable, FALSE)

\* NfaArena::connect
connect(arena, source, target) == [arena EXCEPT ![source].edges = Append(@, target)]

\* NfaArena::add_after; the new index is Len(arena) + 1.
add_after(arena, source, new_node) == connect(Append(arena, new_node), source, Len(arena) + 1)

\* What convert_regex_node leaves: the arena and the node it returns.
Converted(arena, node) == [arena |-> arena, node |-> node]

RECURSIVE convert_regex_node(_, _, _, _), convert_and(_, _, _, _), convert_or(_, _, _, _, _)

\* The `for node in nodes` loop of the And arm.
convert_and(arena, regex_arena, nodes, last_node) ==
  IF Len(nodes) = 0 THEN Converted(arena, last_node)
  ELSE LET new == convert_regex_node(arena, regex_arena, Head(nodes), last_node) IN
       convert_and(new.arena, regex_arena, Tail(nodes), new.node)

\* The `for node in nodes` loop of the Or arm.
convert_or(arena, regex_arena, nodes, predecessor, target_node) ==
  IF Len(nodes) = 0 THEN Converted(arena, target_node)
  ELSE LET new == convert_regex_node(arena, regex_arena, Head(nodes), predecessor) IN
       convert_or(connect(new.arena, new.node, target_node), regex_arena, Tail(nodes),
                  predecessor, target_node)

\* convert_regex_node
convert_regex_node(arena, regex_arena, node_idx, predecessor) ==
  LET node == regex_arena[node_idx] IN
  CASE node.type = "And" -> convert_and(arena, regex_arena, node.children, predecessor)
    [] node.type = "Or" ->
         convert_or(Append(arena, EPSILON), regex_arena, node.children, predecessor,
                    Len(arena) + 1)
    [] node.type = "Literal" ->
         Converted(add_after(arena, predecessor,
                             NfaNode(<< >>, node.pat, "Simple", NoVariable, FALSE)),
                   Len(arena) + 1)
    [] node.type = "Variable" ->
         LET n == Len(arena) + 1
             a1 == add_after(arena, predecessor,
                             NfaNode(<< >>, PatAnyCharLazy, "Variable", node.var, FALSE))
         IN Converted(connect(a1, n, n), n)
    [] node.type = "ZeroOrOne" ->
         LET target_node == Len(arena) + 1
             a1 == connect(Append(arena, EPSILON), predecessor, target_node)
             new == convert_regex_node(a1, regex_arena, node.children[1], predecessor)
         IN Converted(connect(new.arena, new.node, target_node), target_node)
    [] node.type = "Many" ->
         LET iteration_node == Len(arena) + 1
             a1 == connect(Append(arena, EPSILON), predecessor, iteration_node)
             target_node == Len(a1) + 1
             a2 == connect(Append(a1, EPSILON), predecessor, target_node)
             new == convert_regex_node(a2, regex_arena, node.children[1], iteration_node)
         IN Converted(connect(connect(new.arena, new.node, iteration_node),
                              new.node, target_node),
                      target_node)
    [] node.type = "OneOrMore" ->
         LET iteration_node == Len(arena) + 1
             a1 == connect(Append(arena, EPSILON), predecessor, iteration_node)
             target_node == Len(a1) + 1
             a2 == Append(a1, EPSILON)
             new == convert_regex_node(a2, regex_arena, node.children[1], iteration_node)
         IN Converted(connect(connect(new.arena, new.node, iteration_node),
                              new.node, target_node),
                      target_node)

\* enum NfaError
NfaError(kind, name) == [kind |-> kind, name |-> name]
NoNfaError == NfaError("None", << >>)

\* check_variables: the loop over nodes[i..] with the names visited so far.
RECURSIVE check_variables_from(_, _, _)
check_variables_from(nodes, i, visited_variables) ==
  IF i > Len(nodes) THEN NoNfaError
  ELSE IF nodes[i].kind = "Variable"
    THEN IF nodes[i].var.name \in visited_variables
           THEN NfaError("DuplicateVariable", nodes[i].var.name)
           ELSE check_variables_from(nodes, i + 1, visited_variables \cup {nodes[i].var.name})
    ELSE check_variables_from(nodes, i + 1, visited_variables)

\* check_variables without its `visited_variables.insert`: no name is ever
\* found visited.
check_variables_no_insert(nodes) == NoNfaError

\* check_variables
check_variables(nodes) == check_variables_from(nodes, 1, {})

\* struct Nfa { root, nodes } as Result<Nfa, NfaError>.
NfaResult(err, root, nodes) == [err |-> err, root |-> root, nodes |-> nodes]

\* Nfa::try_from without `nfa.nodes[last_node].is_accepting = true`.
nfa_try_from_no_accepting(value) ==
  LET new == convert_regex_node(<< EPSILON >>, value.arena, value.root, 1)
      err == check_variables(new.arena)
  IN IF err.kind # "None" THEN NfaResult(err, 0, << >>)
     ELSE NfaResult(NoNfaError, 1, new.arena)

\* impl TryFrom<Regex> for Nfa
nfa_try_from(value) ==
  LET root_node == 1
      new == convert_regex_node(<< EPSILON >>, value.arena, value.root, root_node)
      nodes == [new.arena EXCEPT ![new.node].is_accepting = TRUE]
      err == check_variables(nodes)
  IN IF err.kind # "None" THEN NfaResult(err, 0, << >>)
     ELSE NfaResult(NoNfaError, root_node, nodes)


(***************************************************************************)
(* Vec, Set and Map helpers                                                *)
(***************************************************************************)

\* The elements of a Vec.
Elems(s) == { s[i] : i \in 1..Len(s) }

\* Set::iter().next(): the hash set's first element.  The Set of lib.rs is
\* FxHashSet, whose order is fixed but says nothing to the program; CHOOSE is
\* that fixed, unspecified choice.
First(S) == CHOOSE x \in S : TRUE

\* slice::sort / sort_unstable on a Vec of indices: the i-th element of the
\* sorted Vec is the value that has fewer than i elements below it and at
\* least i elements not above it.
Sort(s) ==
  bind(s, LAMBDA vec :
    [i \in 1..Len(vec) |->
       CHOOSE x \in Elems(vec) :
         /\ Cardinality({ j \in 1..Len(vec) : vec[j] < x }) < i
         /\ i <= Cardinality({ j \in 1..Len(vec) : vec[j] <= x })])

\* Vec::dedup: drops each element equal to the one before it.
RECURSIVE VecDedup(_)
VecDedup(s) ==
  IF Len(s) <= 1 THEN s
  ELSE IF s[1] = s[2] THEN VecDedup(Tail(s))
  ELSE << s[1] >> \o VecDedup(Tail(s))

\* `set.into_iter().collect::<Vec<_>>()` followed by sort(): the order in
\* which the set hands out its elements does not survive the sort.
SortedVec(S) ==
  bind(S, LAMBDA set :
    [i \in 1..Cardinality(set) |->
       CHOOSE x \in set : Cardinality({ y \in set : y < x }) = i - 1])

\* Map::default() and Map::insert for a Map keyed by char or by Vec.
EmptyMap == [k \in {} |-> 0]
MapInsert(m, key, value) == (key :> value) @@ m

(***************************************************************************)
(* dfa.rs                                                                  *)
(***************************************************************************)

\* struct DfaEdges { default, edges }: default is 0 for None.
DfaEdges(default, edges) == [default |-> default, edges |-> edges]

\* struct DfaNode { is_accepting, variable, edges }: variable is NoVariable
\* for None.
DfaNode(is_accepting, variable, edges) ==
  [is_accepting |-> is_accepting, variable |-> variable, edges |-> edges]

\* DfaNode::default()
DefaultDfaNode == DfaNode(FALSE, NoVariable, DfaEdges(0, EmptyMap))

\* enum DfaError
DfaError(kind, first, second) == [kind |-> kind, first |-> first, second |-> second]
NoDfaError == DfaError("None", << >>, << >>)

\* struct DfaBuilder { nodes, nfa_to_dfa, pending_nodes }
DfaBuilder(nodes, nfa_to_dfa, pending_nodes) ==
  [nodes |-> nodes, nfa_to_dfa |-> nfa_to_dfa, pending_nodes |-> pending_nodes]

\* DfaBuilder::default()
DefaultDfaBuilder == DfaBuilder(<< >>, EmptyMap, {})

\* DfaBuilder::insert; the index it returns is InsertIndex.
InsertIndex(b, key) ==
  IF key \in DOMAIN b.nfa_to_dfa THEN b.nfa_to_dfa[key] ELSE Len(b.nodes) + 1

insert(b, key, node) ==
  IF key \in DOMAIN b.nfa_to_dfa
    THEN [b EXCEPT !.nodes[b.nfa_to_dfa[key]] = node]
    ELSE [b EXCEPT !.nodes = Append(@, node),
                   !.nfa_to_dfa = MapInsert(@, key, Len(b.nodes) + 1)]

\* DfaBuilder::entry without the early return for a key the map has: the key
\* goes to the worklist again.
entry_always_pending(b, key) ==
  IF key \in DOMAIN b.nfa_to_dfa THEN [b EXCEPT !.pending_nodes = @ \cup {key}]
  ELSE insert([b EXCEPT !.pending_nodes = @ \cup {key}], key, DefaultDfaNode)

\* DfaBuilder::entry; the index it returns is InsertIndex(b, key).
entry(b, key) ==
  IF key \in DOMAIN b.nfa_to_dfa THEN b
  ELSE insert([b EXCEPT !.pending_nodes = @ \cup {key}], key, DefaultDfaNode)

\* DfaBuilder::compute_group_variable, the loop over group[i..]:
\* [err, variable].
RECURSIVE compute_group_variable_from(_, _, _, _)
compute_group_variable_from(nfa, group, i, variable) ==
  IF i > Len(group) THEN [err |-> NoDfaError, variable |-> variable]
  ELSE IF nfa.nodes[group[i]].kind # "Variable"
    THEN compute_group_variable_from(nfa, group, i + 1, variable)
  ELSE IF variable = NoVariable
    THEN compute_group_variable_from(nfa, group, i + 1, nfa.nodes[group[i]].var)
  ELSE [err |-> DfaError("AmbiguousVariables", variable.name, nfa.nodes[group[i]].var.name),
        variable |-> NoVariable]

\* compute_group_variable without the collision arm: the first variable of
\* the group is its variable.
compute_group_variable_first(nfa, group) ==
  LET variables == { i \in 1..Len(group) : nfa.nodes[group[i]].kind = "Variable" } IN
  [err |-> NoDfaError,
   variable |-> IF variables = {} THEN NoVariable
                ELSE nfa.nodes[group[CHOOSE i \in variables : \A j \in variables : i <= j]].var]

\* DfaBuilder::compute_group_variable
compute_group_variable(nfa, group) == compute_group_variable_from(nfa, group, 1, NoVariable)

\* get_non_epsilon_edges: the Vec of (pattern, target), as records.
RECURSIVE node_pattern_edges(_, _, _)
node_pattern_edges(nfa, edges, i) ==
  IF i > Len(edges) THEN << >>
  ELSE ( IF is_epsilon(nfa.nodes[edges[i]].edge_kind) THEN << >>
         ELSE << [pattern |-> nfa.nodes[edges[i]].edge_kind, target |-> edges[i]] >> )
       \o node_pattern_edges(nfa, edges, i + 1)

RECURSIVE get_non_epsilon_edges_from(_, _, _)
get_non_epsilon_edges_from(nfa, group, i) ==
  IF i > Len(group) THEN << >>
  ELSE node_pattern_edges(nfa, nfa.nodes[group[i]].edges, 1)
       \o get_non_epsilon_edges_from(nfa, group, i + 1)

get_non_epsilon_edges(nfa, group) == get_non_epsilon_edges_from(nfa, group, 1)

\* `edge_map.entry(char).or_default().push(target_idx)`
MapPush(edge_map, char, target_idx) ==
  MapInsert(edge_map, char,
            IF char \in DOMAIN edge_map THEN Append(edge_map[char], target_idx)
            ELSE << target_idx >>)

\* `for char in start..end`: the range without its end.
RECURSIVE MapPushRangeExclusive(_, _, _, _)
MapPushRangeExclusive(edge_map, start, end, target_idx) ==
  IF start >= end THEN edge_map
  ELSE bind(MapPush(edge_map, start, target_idx),
            LAMBDA pushed : MapPushRangeExclusive(pushed, start + 1, end, target_idx))

\* `for char in start..=end { edge_map.entry(char).or_default().push(target_idx) }`
RECURSIVE MapPushRange(_, _, _, _)
MapPushRange(edge_map, start, end, target_idx) ==
  IF start > end THEN edge_map
  ELSE bind(MapPush(edge_map, start, target_idx),
            LAMBDA pushed : MapPushRange(pushed, start + 1, end, target_idx))

\* The first loop of DfaEdges::from_nfa_group with the AnyCharLazy targets
\* pushed to default_edges like the AnyChar targets.
RECURSIVE collect_edges_lazy_as_greedy(_, _, _)
collect_edges_lazy_as_greedy(edges, i, acc) ==
  IF i > Len(edges) THEN acc
  ELSE LET edge_pattern == edges[i].pattern
           target_idx == edges[i].target
       IN collect_edges_lazy_as_greedy(edges, i + 1,
            CASE edge_pattern.k = "Char" ->
                   [acc EXCEPT !.edge_map = MapPush(@, edge_pattern.start, target_idx)]
              [] edge_pattern.k = "Range" ->
                   [acc EXCEPT !.edge_map =
                      MapPushRange(@, edge_pattern.start, edge_pattern.end, target_idx)]
              [] OTHER ->
                   [acc EXCEPT !.default_edges = Append(@, target_idx)])

\* The first loop of DfaEdges::from_nfa_group over edges[i..]: the three
\* collections [edge_map, default_edges, lazy_default_edges].
RECURSIVE collect_edges(_, _, _)
collect_edges(edges, i, acc) ==
  IF i > Len(edges) THEN acc
  ELSE LET edge_pattern == edges[i].pattern
           target_idx == edges[i].target
       IN collect_edges(edges, i + 1,
            CASE edge_pattern.k = "Char" ->
                   [acc EXCEPT !.edge_map = MapPush(@, edge_pattern.start, target_idx)]
              [] edge_pattern.k = "Range" ->
                   [acc EXCEPT !.edge_map =
                      MapPushRange(@, edge_pattern.start, edge_pattern.end, target_idx)]
              [] edge_pattern.k = "AnyChar" ->
                   [acc EXCEPT !.default_edges = Append(@, target_idx)]
              [] edge_pattern.k = "AnyCharLazy" ->
                   [acc EXCEPT !.lazy_default_edges = Append(@, target_idx)])

\* The targets of an explicit char without the default edges.
ExplicitTargetsOnly(targets, default_edges) == VecDedup(Sort(targets))

\* The targets of an explicit char: its own, extended by the default edges,
\* sorted and deduplicated.
ExplicitTargets(targets, default_edges) == VecDedup(Sort(targets \o default_edges))

\* The targets of the default edge with the AnyCharLazy targets kept beside
\* the AnyChar targets.
DefaultTargetsMerged(default_edges, lazy_default_edges) ==
  VecDedup(Sort(default_edges \o lazy_default_edges))

\* The targets of the default edge: the AnyChar targets or, when there are
\* none, the AnyCharLazy targets, sorted and deduplicated.
DefaultTargets(default_edges, lazy_default_edges) ==
  VecDedup(Sort(IF Len(default_edges) = 0 THEN lazy_default_edges ELSE default_edges))

\* DfaEdges::from_nfa_group up to its calls of DfaBuilder::entry: the Vecs of
\* NFA targets to expand, in the order the calls are made: first the default
\* edge (char 0) when it has targets, then the chars of edge_map.  The Map is
\* walked in ascending char order.
Buckets(nfa, group) ==
  bind(collect_edges(get_non_epsilon_edges(nfa, group), 1,
                     [edge_map |-> EmptyMap, default_edges |-> << >>,
                      lazy_default_edges |-> << >>]),
       LAMBDA acc :
  bind(DefaultTargets(acc.default_edges, acc.lazy_default_edges), LAMBDA default :
  bind(SortedVec(DOMAIN acc.edge_map), LAMBDA chars :
    ( IF Len(default) = 0 THEN << >> ELSE << [char |-> 0, targets |-> default] >> )
    \o [i \in 1..Len(chars) |->
          [char |-> chars[i],
           targets |-> ExplicitTargets(acc.edge_map[chars[i]], acc.default_edges)]])))

\* DfaEdges::replace
replace(edges, old_target, new_target) ==
  DfaEdges(IF edges.default = old_target THEN new_target ELSE edges.default,
           [c \in DOMAIN edges.edges |->
              IF edges.edges[c] = old_target THEN new_target ELSE edges.edges[c]])

\* The first loop of DfaBuilder::dedup with nodes compared by their edges
\* alone.
RECURSIVE find_duplicates_by_edges(_, _, _, _)
find_duplicates_by_edges(nodes, fixed_duplicates, i, acc) ==
  IF i > Len(nodes) THEN acc
  ELSE IF i \in fixed_duplicates
    THEN find_duplicates_by_edges(nodes, fixed_duplicates, i + 1, acc)
  ELSE LET equal == { k \in 1..Len(acc.visited_nodes) :
                        nodes[acc.visited_nodes[k]].edges = nodes[i].edges } IN
       bind(IF equal = {}
              THEN [acc EXCEPT !.visited_nodes = Append(@, i)]
              ELSE [acc EXCEPT !.duplicates =
                      Append(@, << i, acc.visited_nodes[CHOOSE k \in equal : \A j \in equal : k <= j] >>)],
            LAMBDA next_acc : find_duplicates_by_edges(nodes, fixed_duplicates, i + 1, next_acc))

\* The first loop of DfaBuilder::dedup over the nodes i.. that are not fixed
\* duplicates: [visited_nodes, duplicates], a duplicate being the pair of the
\* node and the first visited node equal to it.
RECURSIVE find_duplicates(_, _, _, _)
find_duplicates(nodes, fixed_duplicates, i, acc) ==
  IF i > Len(nodes) THEN acc
  ELSE IF i \in fixed_duplicates THEN find_duplicates(nodes, fixed_duplicates, i + 1, acc)
  ELSE LET equal == { k \in 1..Len(acc.visited_nodes) : nodes[acc.visited_nodes[k]] = nodes[i] } IN
       bind(IF equal = {}
              THEN [acc EXCEPT !.visited_nodes = Append(@, i)]
              ELSE [acc EXCEPT !.duplicates =
                      Append(@, << i, acc.visited_nodes[CHOOSE k \in equal : \A j \in equal : k <= j] >>)],
            LAMBDA next_acc : find_duplicates(nodes, fixed_duplicates, i + 1, next_acc))

\* The second loop of DfaBuilder::dedup: every edge to `previous` is turned
\* to `new`, one duplicate after the other.
RECURSIVE replace_duplicates(_, _)
replace_duplicates(nodes, duplicates) ==
  IF Len(duplicates) = 0 THEN nodes
  ELSE bind([i \in 1..Len(nodes) |->
               [nodes[i] EXCEPT !.edges = replace(@, duplicates[1][1], duplicates[1][2])]],
            LAMBDA replaced : replace_duplicates(replaced, Tail(duplicates)))

\* struct Dfa { root, nodes } as Result<Dfa, DfaError>.
DfaResult(err, root, nodes) == [err |-> err, root |-> root, nodes |-> nodes]
NoDfa == DfaResult(NoDfaError, 0, << >>)


(***************************************************************************)
(* util.rs                                                                 *)
(***************************************************************************)

\* impl FloodFill for Dfa: get_neighbors, as the set the iterator is
\* collected into by FloodFillIter::next.
get_neighbors(dfa, item) ==
  LET edges == dfa.nodes[item].edges IN
  (IF edges.default = 0 THEN {} ELSE {edges.default})
  \cup { edges.edges[c] : c \in DOMAIN edges.edges }

\* FloodFillIter::next with the insert into visited_nodes after the filter
\* of the neighbours: a state with an edge to itself goes back to the
\* pending set once.
RECURSIVE FloodFillIterLateVisit(_, _, _)
FloodFillIterLateVisit(dfa, pending_nodes, visited_nodes) ==
  IF pending_nodes = {} THEN << >>
  ELSE LET next == First(pending_nodes)
       IN << next >>
          \o FloodFillIterLateVisit(dfa,
               (pending_nodes \ {next})
               \cup { neighbor \in get_neighbors(dfa, next) : neighbor \notin visited_nodes },
               visited_nodes \cup {next})

\* FloodFillIter::next, called until it returns None: the Vec of the items
\* it yields.
RECURSIVE FloodFillIter(_, _, _)
FloodFillIter(dfa, pending_nodes, visited_nodes) ==
  IF pending_nodes = {} THEN << >>
  ELSE LET next == First(pending_nodes)
           visited == visited_nodes \cup {next}
       IN << next >>
          \o FloodFillIter(dfa,
               (pending_nodes \ {next})
               \cup { neighbor \in get_neighbors(dfa, next) : neighbor \notin visited },
               visited)

\* Dfa::iter
dfa_iter(dfa) == FloodFillIter(dfa, {dfa.root}, {})

(***************************************************************************)
(* codegen.rs                                                              *)
(***************************************************************************)

\* `set.into_iter().collect::<Vec<_>>()`: the set's elements in the order
\* the hash set hands them out.
RECURSIVE IntoVec(_)
IntoVec(S) == IF S = {} THEN << >> ELSE << First(S) >> \o IntoVec(S \ {First(S)})

\* struct Variable { kind, ident }.  The ident is the name of the pattern's
\* variable in collect_variables, and the index i of `__var_i` in the
\* variable map.
Variable(kind, ident) == [kind |-> kind, ident |-> ident]
NoInternalVariable == Variable("None", 0)

\* Codegen::collect_variables
collect_variables(dfa) ==
  LET order == dfa_iter(dfa) IN
  IntoVec({ Variable(dfa.nodes[order[i]].variable.kind, dfa.nodes[order[i]].variable.name) :
            i \in { j \in 1..Len(order) : dfa.nodes[order[j]].variable # NoVariable } })

\* The variable_map of Codegen::generate: name |-> Variable { __var_index }.
\* Indices count from 0 as in the emitted identifiers.
variable_map(variables) ==
  [name \in { variables[i].ident : i \in 1..Len(variables) } |->
     LET index == CHOOSE i \in 1..Len(variables) : variables[i].ident = name
     IN Variable(variables[index].kind, index - 1)]

\* Codegen::collect_states: dfa index |-> index of `State_index`.
collect_states(dfa) ==
  LET order == dfa_iter(dfa) IN
  [dfa_idx \in Elems(order) |-> (CHOOSE i \in 1..Len(order) : order[i] = dfa_idx) - 1]

\* enum VariableUpdate
VariableUpdate(kind, var) == [kind |-> kind, var |-> var]

\* make_variable_update with the patterns of its first two arms exchanged: a
\* capture is closed where it begins and started where it ends.
make_variable_update_swapped(dfa, current_idx, target_idx, variables) ==
  LET current_state == dfa.nodes[current_idx]
      target_state == dfa.nodes[target_idx]
  IN CASE current_state.variable # NoVariable /\ target_state.variable = NoVariable ->
            VariableUpdate("StartVariable", NoInternalVariable)
       [] current_state.variable = NoVariable /\ target_state.variable # NoVariable ->
            VariableUpdate("EndVariable", variables[target_state.variable.name])
       [] OTHER -> VariableUpdate("NoVariable", NoInternalVariable)

\* Codegen::make_variable_update
make_variable_update(dfa, current_idx, target_idx, variables) ==
  LET current_state == dfa.nodes[current_idx]
      target_state == dfa.nodes[target_idx]
  IN CASE current_state.variable = NoVariable /\ target_state.variable # NoVariable ->
            VariableUpdate("StartVariable", NoInternalVariable)
       [] current_state.variable # NoVariable /\ target_state.variable = NoVariable ->
            VariableUpdate("EndVariable", variables[current_state.variable.name])
       [] OTHER -> VariableUpdate("NoVariable", NoInternalVariable)

\* enum StateTransition
StateTransition(kind, target, variable_update, expected) ==
  [kind |-> kind, target |-> target, variable_update |-> variable_update,
   expected |-> expected]
\* A StateTransition::Invalid that leaves out the first of the expected.
InvalidTail(expected) ==
  StateTransition("Invalid", 0, VariableUpdate("NoVariable", NoInternalVariable),
                  Tail(expected))

Invalid(expected) ==
  StateTransition("Invalid", 0, VariableUpdate("NoVariable", NoInternalVariable), expected)
Valid(target, variable_update) == StateTransition("Valid", target, variable_update, << >>)

\* simplify_match without its sort: the arm with the default pattern comes
\* first.
simplify_match_unsorted(patterns_and_transitions) ==
  LET transitions == { patterns_and_transitions[i].transition :
                         i \in 1..Len(patterns_and_transitions) }
      patterns(t) == SelectSeq(patterns_and_transitions, LAMBDA pt : pt.transition = t)
      arm(t) == [patterns |-> [i \in 1..Len(patterns(t)) |-> patterns(t)[i].pattern],
                 transition |-> t,
                 wildcard |-> \E i \in 1..Len(patterns(t)) : patterns(t)[i].pattern = 0]
      simplified == IntoVec({ arm(t) : t \in transitions })
  IN SelectSeq(simplified, LAMBDA a : a.wildcard) \o SelectSeq(simplified, LAMBDA a : ~a.wildcard)

\* Codegen::simplify_match: the arms of the match, the arm with the default
\* pattern (spelled 0) last.  An arm is [patterns, transition, wildcard];
\* wildcard arms are emitted as `_ => ...`.
simplify_match(patterns_and_transitions) ==
  LET transitions == { patterns_and_transitions[i].transition :
                         i \in 1..Len(patterns_and_transitions) }
      patterns(t) == SelectSeq(patterns_and_transitions, LAMBDA pt : pt.transition = t)
      arm(t) == [patterns |-> [i \in 1..Len(patterns(t)) |-> patterns(t)[i].pattern],
                 transition |-> t,
                 wildcard |-> \E i \in 1..Len(patterns(t)) : patterns(t)[i].pattern = 0]
      simplified == IntoVec({ arm(t) : t \in transitions })
  IN SelectSeq(simplified, LAMBDA a : ~a.wildcard) \o SelectSeq(simplified, LAMBDA a : a.wildcard)

\* Codegen::collect_state_branch: the arms of `match __next_char` of the
\* state.
collect_state_branch(dfa, dfa_idx, states, variables) ==
  LET state == dfa.nodes[dfa_idx]
      chars == SortedVec(DOMAIN state.edges.edges)
      default_edge ==
        IF state.edges.default # 0
          THEN [pattern |-> 0,
                transition |-> Valid(states[state.edges.default],
                                     make_variable_update(dfa, dfa_idx, state.edges.default, variables))]
          ELSE [pattern |-> 0,
                transition |-> Invalid(IF Len(chars) = 0 THEN << "End of input" >> ELSE chars)]
      initial_patterns ==
        [i \in 1..Len(chars) |->
           [pattern |-> chars[i],
            transition |-> Valid(states[state.edges.edges[chars[i]]],
                                 make_variable_update(dfa, dfa_idx, state.edges.edges[chars[i]], variables))]]
        \o << default_edge >>
  IN simplify_match(initial_patterns)

\* A collect_state_termination that takes every state for an accepting one.
collect_state_termination_accepting(dfa, dfa_idx, internal_name, variables) ==
  LET state == dfa.nodes[dfa_idx] IN
  IF state.variable # NoVariable
    THEN [kind |-> "update", var |-> variables[state.variable.name],
          internal_name |-> internal_name]
    ELSE [kind |-> "break", var |-> NoInternalVariable, internal_name |-> internal_name]

\* Codegen::collect_state_termination: what the state does at the end of the
\* input.  internal_name is the state the panic message names.
collect_state_termination(dfa, dfa_idx, internal_name, variables) ==
  LET state == dfa.nodes[dfa_idx] IN
  CASE state.is_accepting /\ state.variable # NoVariable ->
         [kind |-> "update", var |-> variables[state.variable.name],
          internal_name |-> internal_name]
    [] state.is_accepting /\ state.variable = NoVariable ->
         [kind |-> "break", var |-> NoInternalVariable, internal_name |-> internal_name]
    [] OTHER -> [kind |-> "panic", var |-> NoInternalVariable, internal_name |-> internal_name]

\* The emitted code, as the tables Codegen::generate quotes: the variable
\* setups and finalizers (one per entry of variable_map), the states, the
\* initial state, and each state's branch and termination.
NoCode ==
  [variable_map |-> EmptyMap, states |-> EmptyMap, initial_state |-> 0,
   state_branches |-> << >>, state_terminations |-> << >>]

generate(dfa) ==
  LET variables == collect_variables(dfa)
      vmap == variable_map(variables)
      states == collect_states(dfa)
      dfa_of(index) == CHOOSE dfa_idx \in DOMAIN states : states[dfa_idx] = index
      count == Cardinality(DOMAIN states)
  IN [variable_map |-> vmap,
      states |-> states,
      initial_state |-> states[dfa.root],
      state_branches |->
        [i \in 1..count |-> collect_state_branch(dfa, dfa_of(i - 1), states, vmap)],
      state_terminations |->
        [i \in 1..count |->
           collect_state_termination(dfa, dfa_of(i - 1), states[dfa_of(i - 1)], vmap)]]


(***************************************************************************)
(* The patterns and the inputs                                             *)
(***************************************************************************)

\* Patterns are all strings of at most MaxPatternLen characters over
\* PatternChars, and the patterns of the tests and the documentation.
MaxPatternLen == 3
PatternChars == { Ch(c) : c \in {"a", "b", ".", "(", ")", "|", "?", "*", "+", "{", "}"} }

NamedPatterns ==
  { Str(<< "[", "\\", "d", "]" >>),
    Str(<< "{", "x", "}", "{", "y", "}" >>),
    Str(<< "(", "a", "?", ")", "*" >>),
    Str(<< "(", "a", "*", ")", "*" >>),
    Str(<< "(", "a", "?", ")", "+" >>),
    Str(<< "(", ".", "|", "{", "v", "a", "r", "}", ")" >>),
    Str(<< "{", "v", "a", "r", "}" >>),
    Str(<< "A", "{", "v", "a", "r", "}", "B", "{", "v", "a", "r", "2", "}" >>),
    Str(<< "A", "*", "{", "f", "o", "o", "}", "B", "+", "{", "b", "a", "r", "}" >>),
    Str(<< "\\", "[", "(", "{", "r", "e", "s", "u", "l", "t", "*", "}", ",", "?", ")", "*", "\\", "]" >>),
    Str(<< "(", "{", "v", "a", "r", "*", "}", ",", ")", "*" >>),
    Str(<< "{", "r", "e", "s", "u", "l", "t", "}", ":", " ", "(", "{", "o", "p", "e", "r", "a", "n", "d", "s", "*", "}", " ", "?", ")", "+" >>),
    Str(<< "a", "(", "{", "v", "}", ")", "?" >>),
    Str(<< "A", "{", "f", "o", "o", "}", "B", "?", "{", "b", "a", "r", "}" >>),
    Str(<< "A", "{", "x", "}", "B", "{", "y", "}" >>),
    Str(<< "{", "f", "o", "o", "}", "b", "a", "r", "{", "f", "o", "o", "}" >>),
    Str(<< "(", "a", "b", "c", "|", ".", ")" >>),
    Str(<< "(", "{", "v", "a", "r", "}", ")", "*" >>),
    Str(<< ".", "{", "v", "a", "r", "}", "." >>),
    Str(<< "[", "A", "B", "C", "]", "*" >>),
    Str(<< "\\", "s" >>), Str(<< "\\", "d" >>), Str(<< "\\", "w" >>),
    Str(<< "\\", "s", "?" >>), Str(<< "\\", "d", "*" >>), Str(<< "\\", "w", "+" >>),
    Str(<< "\\", "w", "+", " ", "{", "a", "}", "\\", "s", "?" >>),
    Str(<< "{", "n", "a", "m", "e", "}" >>), Str(<< "{", "n", "a", "m", "e", "*", "}" >>),
    Str(<< "{", "x", "}", "?" >>), Str(<< "{", "x", "}", "*" >>), Str(<< "{", "x", "}", "+" >>),
    Str(<< "(", "a", "b", ")", "*" >>), Str(<< "[", "a", "b", "c", "]", "+" >>),
    Str(<< "a", "?", "|", "b", "|", "c", "+", "d" >>),
    Str(<< "(", "a", "b", "|", "c", "d", ")", "*" >>),
    Str(<< "(", "a", "*", "*", ")" >>), Str(<< "(", "a", "?", "+", ")" >>),
    Str(<< "a", "|", "|", "b" >>), Str(<< "(", "a", "|", ")" >>),
    Str(<< "\\" >>), Str(<< "a", "\\" >>), Str(<< "a", "b", "\\" >>),
    Str(<< "(", "a", "|", "b", ")", "c" >>), Str(<< "[", "a", "-", "z", "]" >>),
    Str(<< "\\", "{" >>), Str(<< "{", "x", "}", "a" >>),
    Str(<< "[", "]" >>), Str(<< "a", "[", "]" >>), Str(<< "[", "]", "a" >>),
    Str(<< "[", "a", "-", "b", "]" >>), Str(<< "[", "A", "-", "F", "]" >>),
    Str(<< "[", "z", "-", "a", "]" >>), Str(<< "[", "b", "-", "a", "]" >>) }

Patterns == SeqsUpTo(PatternChars, MaxPatternLen) \cup NamedPatterns

\* Inputs are all strings of at most MaxInputLen characters over InputChars,
\* and the inputs of the tests and the documentation.
MaxInputLen == 3
InputChars == { Ch(c) : c \in {"a", "b"} }

NamedInputs ==
  { Str(<< "4", "2" >>),
    Str(<< "A", "1", "B", "2" >>),
    Str(<< "A", "A", "A", "7", "4", "0", "B", "B", "5", ".", "0" >>),
    Str(<< "[", "1", ",", "2", ",", "3", "]" >>),
    Str(<< "1", ",", "2", ",", "3", ",", "4", "," >>),
    Str(<< "3", "2", "6", "7", ":", " ", "8", "1", " ", "4", "0", " ", "2", "7" >>),
    Str(<< "1", "2", "3", "4" >>),
    Str(<< "1", "2", "3" >>),
    Str(<< "A", "B", "C", "D" >>),
    Str(<< "H", "e", "l", "l", "o", " ", "W", "o", "r", "l", "d", " " >>),
    Str(<< "c" >>), Str(<< "A" >>), Str(<< "F" >>), Str(<< "G" >>) }

Inputs == SeqsUpTo(InputChars, MaxInputLen) \cup NamedInputs


(***************************************************************************)
(* The state                                                               *)
(***************************************************************************)

VARIABLES
  pc,                \* where the expansion of `re_parse!(pattern, input)` is
  pattern,           \* the macro's pattern literal
  regex,             \* Result<Regex, ParseError> of Regex::from_str
  nfa,               \* Result<Nfa, NfaError> of Nfa::try_from
  rendered,          \* the String of `regex.to_string()`
  builder,           \* Dfa::try_from: the DfaBuilder
  root_group,        \* Dfa::try_from: root_group
  cg,                \* the frame of compute_group and from_nfa_group
  eg,                \* the frame of expand_group
  cn,                \* the frame of get_connected_nodes
  fixed_duplicates,  \* DfaBuilder::dedup: fixed_duplicates
  computed,          \* the groups compute_group has returned Ok for, in order
  dfa,               \* Result<Dfa, DfaError> of Dfa::try_from
  code,              \* the emitted code
  input,             \* __initial_input
  pos,               \* the number of characters __input has yielded
  state,             \* __state
  variable_start,    \* __variable_start
  storage,           \* the __var_i: each a Vec of ranges << start, end >>
  bindings,          \* the pattern's variables as the finalizers assign them
  panic_message,     \* the message of the panic! the emitted code has ended with
  trail              \* the DFA nodes the scanner has been in, in order

front == << pattern, regex, nfa, rendered >>
build == << builder, root_group, cg, eg, cn, fixed_duplicates, computed, dfa >>
scan == << input, pos, state, variable_start, storage, bindings, panic_message, trail >>
vars == << pc, front, build, code, scan >>

NoFrame == [group |-> << >>, buckets |-> << >>, edges |-> DfaEdges(0, EmptyMap)]
NoExpand == [caller |-> "none", group |-> << >>, nodes |-> {}]
NoConnected == [nodes |-> {}, pending_nodes |-> {}]

\* The panic messages of the emitted code: `Unexpected character ...` with
\* the character and the expected Vec (StateTransition::quote), and
\* `Unexpected end of input (State_i)` (collect_state_termination).
PanicMessage(text, next_char, expected, internal_name) ==
  [text |-> text, next_char |-> next_char, expected |-> expected,
   internal_name |-> internal_name]
NoPanicMessage == PanicMessage("", 0, << >>, 0)

Init ==
  /\ pc = "from_str"
  /\ pattern \in Patterns
  /\ regex = RegexResult(NoError, << >>, 0)
  /\ nfa = NfaResult(NoNfaError, 0, << >>)
  /\ rendered = << >>
  /\ builder = DefaultDfaBuilder
  /\ root_group = << >>
  /\ cg = NoFrame
  /\ eg = NoExpand
  /\ cn = NoConnected
  /\ fixed_duplicates = {}
  /\ computed = << >>
  /\ dfa = NoDfa
  /\ code = NoCode
  /\ input = << >>
  /\ pos = 0
  /\ state = 0
  /\ variable_start = 0
  /\ storage = EmptyMap
  /\ bindings = EmptyMap
  /\ panic_message = NoPanicMessage
  /\ trail = << >>

(***************************************************************************)
(* lib.rs: re_parse_impl, up to Dfa::try_from                              *)
(***************************************************************************)

\* Regex::from_str(&regex.value())
FromStr ==
  /\ pc = "from_str"
  /\ regex' = from_str(pattern)
  /\ pc' = CASE regex'.err.kind = "None" -> "nfa"
             [] regex'.err.kind = "Panic" -> "panic"
             [] OTHER -> "error"
  /\ UNCHANGED << pattern, nfa, rendered, build, code, scan >>

\* Nfa::try_from(regex)
NfaTryFrom ==
  /\ pc = "nfa"
  /\ nfa' = nfa_try_from(regex)
  /\ pc' = IF nfa'.err.kind = "None" THEN "dfa" ELSE "error"
  /\ UNCHANGED << pattern, regex, rendered, build, code, scan >>

\* The call expand_group(nfa, group): its frame, and the frame of its first
\* call of get_connected_nodes.
CallExpandGroup(caller, group) ==
  /\ eg' = [caller |-> caller, group |-> group, nodes |-> {}]
  /\ cn' = [nodes |-> {}, pending_nodes |-> {group[1]}]

\* Dfa::try_from, up to its call of expand_group.
DfaTryFrom ==
  /\ pc = "dfa"
  /\ builder' = DefaultDfaBuilder
  /\ CallExpandGroup("try_from", << nfa.root >>)
  /\ pc' = "get_connected_nodes"
  /\ UNCHANGED << front, root_group, cg, fixed_duplicates, computed, dfa, code, scan >>

\* get_connected_nodes: one turn of its `while let` loop.
GetConnectedNodes ==
  /\ pc = "get_connected_nodes"
  /\ cn.pending_nodes # {}
  /\ LET node == First(cn.pending_nodes) IN
     cn' = [nodes |-> cn.nodes \cup {node},
            pending_nodes |->
              (cn.pending_nodes \ {node})
              \cup { edge \in Elems(nfa.nodes[node].edges) :
                       is_epsilon(nfa.nodes[edge].edge_kind) }]
  /\ UNCHANGED << pc, front, builder, root_group, cg, eg, fixed_duplicates, computed, dfa,
                  code, scan >>

\* expand_group: get_connected_nodes has returned and the group has a next
\* index.
ExpandGroup ==
  /\ pc = "get_connected_nodes"
  /\ cn.pending_nodes = {}
  /\ Len(eg.group) > 1
  /\ eg' = [eg EXCEPT !.group = Tail(@), !.nodes = @ \cup Elems(SortedVec(cn.nodes))]
  /\ cn' = [nodes |-> {}, pending_nodes |-> {eg.group[2]}]
  /\ UNCHANGED << pc, front, builder, root_group, cg, fixed_duplicates, computed, dfa,
                  code, scan >>

\* The Vec expand_group returns once its last get_connected_nodes has.
ExpandGroupResult == SortedVec(eg.nodes \cup Elems(SortedVec(cn.nodes)))

\* Dfa::try_from: expand_group has returned the root group.
RootGroup ==
  /\ pc = "get_connected_nodes"
  /\ cn.pending_nodes = {}
  /\ Len(eg.group) = 1
  /\ eg.caller = "try_from"
  /\ root_group' = ExpandGroupResult
  /\ builder' = [builder EXCEPT !.pending_nodes = @ \cup {ExpandGroupResult}]
  /\ eg' = NoExpand
  /\ cn' = NoConnected
  /\ pc' = "pending_nodes"
  /\ UNCHANGED << front, cg, fixed_duplicates, computed, dfa, code, scan >>

\* The rest of DfaBuilder::compute_group once from_nfa_group has returned
\* `edges`: either the error of compute_group_variable, or the builder after
\* the insert.
FinishComputeGroup(b, group, edges) ==
  LET is_accepting == \E i \in 1..Len(group) : nfa.nodes[group[i]].is_accepting
      variable == compute_group_variable(nfa, group)
  IN IF variable.err.kind # "None"
       THEN /\ dfa' = DfaResult(variable.err, 0, << >>)
            /\ builder' = b
            /\ computed' = computed
            /\ pc' = "error"
       ELSE /\ builder' = insert(b, group, DfaNode(is_accepting, variable.variable, edges))
            /\ computed' = Append(computed, group)
            /\ pc' = "pending_nodes"
            /\ dfa' = dfa

\* Dfa::try_from: one turn of the `while let` loop up to the first call of
\* expand_group in from_nfa_group; the whole of compute_group when the group
\* has no edge.
ComputeGroup ==
  /\ pc = "pending_nodes"
  /\ builder.pending_nodes # {}
  /\ LET group == First(builder.pending_nodes)
         b == [builder EXCEPT !.pending_nodes = @ \ {group}]
         buckets == Buckets(nfa, group)
     IN IF Len(buckets) = 0
          THEN /\ FinishComputeGroup(b, group, DfaEdges(0, EmptyMap))
               /\ UNCHANGED << cg, eg, cn >>
          ELSE /\ builder' = b
               /\ cg' = [group |-> group, buckets |-> buckets, edges |-> DfaEdges(0, EmptyMap)]
               /\ CallExpandGroup("from_nfa_group", buckets[1].targets)
               /\ pc' = "get_connected_nodes"
               /\ UNCHANGED << computed, dfa >>
  /\ UNCHANGED << front, root_group, fixed_duplicates, code, scan >>

\* DfaEdges::from_nfa_group: expand_group has returned the key of an edge;
\* `dfa.entry(key)` gives the edge its target.  After the last edge
\* compute_group goes on to its end.
FromNfaGroupEntry ==
  /\ pc = "get_connected_nodes"
  /\ cn.pending_nodes = {}
  /\ Len(eg.group) = 1
  /\ eg.caller = "from_nfa_group"
  /\ LET key == ExpandGroupResult
         b == entry(builder, key)
         idx == InsertIndex(builder, key)
         char == cg.buckets[1].char
         edges == IF char = 0 THEN [cg.edges EXCEPT !.default = idx]
                  ELSE [cg.edges EXCEPT !.edges = MapInsert(@, char, idx)]
     IN IF Len(cg.buckets) > 1
          THEN /\ builder' = b
               /\ cg' = [cg EXCEPT !.buckets = Tail(@), !.edges = edges]
               /\ CallExpandGroup("from_nfa_group", cg.buckets[2].targets)
               /\ UNCHANGED << pc, computed, dfa >>
          ELSE /\ FinishComputeGroup(b, cg.group, edges)
               /\ cg' = NoFrame
               /\ eg' = NoExpand
               /\ cn' = NoConnected
  /\ UNCHANGED << front, root_group, fixed_duplicates, code, scan >>

\* Dfa::try_from: the worklist is empty, DfaBuilder::dedup begins.
Dedup ==
  /\ pc = "pending_nodes"
  /\ builder.pending_nodes = {}
  /\ fixed_duplicates' = {}
  /\ pc' = "dedup"
  /\ UNCHANGED << front, builder, root_group, cg, eg, cn, computed, dfa, code, scan >>

\* DfaBuilder::dedup: one turn of its loop; on `break`, the end of
\* Dfa::try_from.
DedupLoop ==
  /\ pc = "dedup"
  /\ LET found == find_duplicates(builder.nodes, fixed_duplicates, 1,
                                  [visited_nodes |-> << >>, duplicates |-> << >>])
     IN IF Len(found.duplicates) = 0
          THEN /\ dfa' = DfaResult(NoDfaError, builder.nfa_to_dfa[root_group], builder.nodes)
               /\ pc' = "generate"
               /\ UNCHANGED << builder, fixed_duplicates >>
          ELSE /\ fixed_duplicates' =
                    fixed_duplicates \cup { found.duplicates[i][1] : i \in 1..Len(found.duplicates) }
               /\ builder' = [builder EXCEPT !.nodes = replace_duplicates(@, found.duplicates)]
               /\ UNCHANGED << pc, dfa >>
  /\ UNCHANGED << front, root_group, cg, eg, cn, computed, code, scan >>


(***************************************************************************)
(* codegen.rs: Codegen::generate, and the code it emits                    *)
(***************************************************************************)

\* Codegen { dfa, expression }.generate()
Generate ==
  /\ pc = "generate"
  /\ code' = generate(dfa)
  /\ pc' = "run"
  /\ UNCHANGED << front, build, scan >>

\* The DFA node of an emitted state.
DfaOf(index) == CHOOSE dfa_idx \in DOMAIN code.states : code.states[dfa_idx] = index

\* quote_variable_setup: `0_usize..0` or `Vec::new()`.
quote_variable_setup(var) == IF var.kind = "Singular" THEN << << 0, 0 >> >> ELSE << >>

\* quote_update_variable and VariableUpdate::quote for EndVariable: the
\* variable's storage after `ident = start..end` or `ident.push(start..end)`.
quote_update_variable(store, variable, start, end) ==
  [store EXCEPT ![variable.ident] =
     IF variable.kind = "Singular" THEN << << start, end >> >>
     ELSE Append(@, << start, end >>)]

\* The emitted code up to `loop`: the variable setups, __initial_input,
\* __input, __variable_start and __state.
Run ==
  /\ pc = "run"
  /\ input' \in Inputs
  /\ pos' = 0
  /\ variable_start' = 0
  /\ state' = code.initial_state
  /\ storage' = [ident \in { code.variable_map[name].ident : name \in DOMAIN code.variable_map } |->
                   quote_variable_setup(
                     code.variable_map[CHOOSE name \in DOMAIN code.variable_map :
                                         code.variable_map[name].ident = ident])]
  /\ trail' = << DfaOf(code.initial_state) >>
  /\ pc' = "loop"
  /\ UNCHANGED << front, build, code, bindings, panic_message >>

\* The arm of `match __next_char` that the character takes: the first whose
\* patterns hold it, or the wildcard arm.
MatchArm(arms, next_char) ==
  arms[CHOOSE i \in 1..Len(arms) :
         /\ arms[i].wildcard \/ next_char \in Elems(arms[i].patterns)
         /\ \A j \in 1..(i - 1) :
              ~(arms[j].wildcard \/ next_char \in Elems(arms[j].patterns))]

\* One turn of the emitted `loop` with a character left: the state's branch
\* (StateTransition::quote).
ScanChar ==
  /\ pc = "loop"
  /\ pos < Len(input)
  /\ LET byte_index == pos
         next_char == input[pos + 1]
         transition == MatchArm(code.state_branches[state + 1], next_char).transition
         update == transition.variable_update
     IN IF transition.kind = "Invalid"
          THEN /\ pc' = "unexpected_character"
               /\ panic_message' =
                    PanicMessage("Unexpected character", next_char, transition.expected, 0)
               /\ UNCHANGED << state, variable_start, storage, trail >>
          ELSE /\ variable_start' =
                    IF update.kind = "StartVariable" THEN byte_index ELSE variable_start
               /\ storage' =
                    IF update.kind = "EndVariable"
                      THEN quote_update_variable(storage, update.var, variable_start, byte_index)
                      ELSE storage
               /\ state' = transition.target
               /\ trail' = Append(trail, DfaOf(transition.target))
               /\ pc' = "loop"
               /\ UNCHANGED panic_message
  /\ pos' = pos + 1
  /\ UNCHANGED << front, build, code, input, bindings >>

\* The turn of the emitted `loop` at the end of the input: the state's
\* termination.
ScanEnd ==
  /\ pc = "loop"
  /\ pos = Len(input)
  /\ LET termination == code.state_terminations[state + 1] IN
     /\ pc' = IF termination.kind = "panic" THEN "unexpected_end" ELSE "finalizers"
     /\ panic_message' =
          IF termination.kind = "panic"
            THEN PanicMessage("Unexpected end of input", 0, << >>, termination.internal_name)
            ELSE panic_message
     /\ storage' = IF termination.kind = "update"
                     THEN quote_update_variable(storage, termination.var, variable_start,
                                                Len(input))
                     ELSE storage
  /\ UNCHANGED << front, build, code, input, pos, state, variable_start, bindings, trail >>

\* `__initial_input[range]`
Slice(range) == SubSeq(input, range[1] + 1, range[2])

\* `__initial_input[range]` panics when the range is not one of the input.
SliceOk(range) == range[1] <= range[2] /\ range[2] <= Len(input)

\* The variable finalizers (quote_variable_finalizer): every variable of
\* variable_map is assigned the text of its range, or of each of its ranges.
Finalizers ==
  /\ pc = "finalizers"
  /\ IF \A ident \in DOMAIN storage : \A i \in 1..Len(storage[ident]) : SliceOk(storage[ident][i])
       THEN /\ bindings' =
                 [name \in DOMAIN code.variable_map |->
                    LET ranges == storage[code.variable_map[name].ident]
                    IN [i \in 1..Len(ranges) |-> Slice(ranges[i])]]
            /\ pc' = "done"
       ELSE /\ pc' = "slice_panic"
            /\ UNCHANGED bindings
  /\ UNCHANGED << front, build, code, input, pos, state, variable_start, storage,
                  panic_message, trail >>

Next ==
  \/ FromStr
  \/ NfaTryFrom
  \/ DfaTryFrom
  \/ GetConnectedNodes
  \/ ExpandGroup
  \/ RootGroup
  \/ ComputeGroup
  \/ FromNfaGroupEntry
  \/ Dedup
  \/ DedupLoop
  \/ Generate
  \/ Run
  \/ ScanChar
  \/ ScanEnd
  \/ Finalizers

Spec == Init /\ [][Next]_vars

\* Dfa::try_from is sequential code: while one of its steps can be taken, it
\* takes one.
TryFromStep ==
  \/ DfaTryFrom
  \/ GetConnectedNodes
  \/ ExpandGroup
  \/ RootGroup
  \/ ComputeGroup
  \/ FromNfaGroupEntry
  \/ Dedup
  \/ DedupLoop

FairSpec == Init /\ [][Next]_vars /\ WF_vars(TryFromStep)

\* `regex.to_string()` on the Regex that Regex::from_str has returned.
Display ==
  /\ pc = "nfa"
  /\ rendered' = to_string(regex)
  /\ pc' = "to_string"
  /\ UNCHANGED << pattern, regex, nfa, build, code, scan >>

\* Parsing a pattern and rendering its tree, without the macro's later stages.
DisplayNext ==
  \/ FromStr
  \/ Display

DisplaySpec == Init /\ [][DisplayNext]_vars

(***************************************************************************)
(* Properties                                                              *)
(***************************************************************************)

\* The expansion of re_parse_impl has ended, with code or with an error.
Compiled == pc \in {"run", "loop", "finalizers", "done", "unexpected_character",
                     "unexpected_end", "slice_panic"}

\* The emitted code has ended: it has accepted the input (done) or panicked.
Rejected == pc \in {"unexpected_character", "unexpected_end", "slice_panic"}
Accepted == pc = "done"

\* The names of the pattern's captures, one per capture position.
CapturePositions == { i \in 1..Len(regex.arena) : regex.arena[i].type = "Variable" }
CaptureNames == { regex.arena[i].var.name : i \in CapturePositions }

\* The language of a node of the syntax tree: whether the string s, taken
\* as a whole, is in it.
RECURSIVE InLanguage(_, _, _), InConcatenation(_, _, _, _)
InLanguage(arena, node_idx, s) ==
  LET node == arena[node_idx]
      child == node.children[1]
  IN CASE node.type = "Literal" ->
            /\ Len(s) = 1
            /\ CASE node.pat.k = "Char" -> s[1] = node.pat.start
                 [] node.pat.k = "Range" -> node.pat.start <= s[1] /\ s[1] <= node.pat.end
                 [] OTHER -> TRUE
       [] node.type = "Variable" -> Len(s) >= 1
       [] node.type = "And" -> InConcatenation(arena, node.children, 1, s)
       [] node.type = "Or" ->
            \E i \in 1..Len(node.children) : InLanguage(arena, node.children[i], s)
       [] node.type = "ZeroOrOne" -> Len(s) = 0 \/ InLanguage(arena, child, s)
       [] node.type = "Many" ->
            \/ Len(s) = 0
            \/ \E k \in 1..Len(s) :
                 /\ InLanguage(arena, child, SubSeq(s, 1, k))
                 /\ InLanguage(arena, node_idx, SubSeq(s, k + 1, Len(s)))
       [] node.type = "OneOrMore" ->
            \/ InLanguage(arena, child, s)
            \/ \E k \in 1..(Len(s) - 1) :
                 /\ InLanguage(arena, child, SubSeq(s, 1, k))
                 /\ InLanguage(arena, node_idx, SubSeq(s, k + 1, Len(s)))

InConcatenation(arena, nodes, i, s) ==
  IF i > Len(nodes) THEN Len(s) = 0
  ELSE \E k \in 0..Len(s) :
         /\ InLanguage(arena, nodes[i], SubSeq(s, 1, k))
         /\ InConcatenation(arena, nodes, i + 1, SubSeq(s, k + 1, Len(s)))

\* C1: for a pattern without captures that compiles and every input, the
\* emitted scanner accepts the input if and only if the whole input is in the
\* language of the pattern's syntax tree.
C1_AcceptsLanguage ==
  (CapturePositions = {} /\ (Accepted \/ Rejected))
    => (Accepted <=> InLanguage(regex.arena, regex.root, input))

\* An input of two or more characters accepted through a repetition.
C1_Witness ==
  /\ Accepted
  /\ CapturePositions = {}
  /\ Len(input) >= 2
  /\ \E i \in 1..Len(regex.arena) : regex.arena[i].type = "Many"

\* C2: tokenize, parse, NFA construction and DFA construction return Ok or
\* Err for every pattern: no assertion, expect or index lookup of the
\* pipeline fails.
C2_NoPanic == pc # "panic"

\* C3: for every pattern that parses and passes the duplicate-variable check,
\* the NFA-to-DFA conversion terminates, with a Dfa or with an error.
C3_DfaTerminates == (pc = "dfa") ~> (pc \in {"generate", "error"})

\* C4: every capture name of a pattern that compiles has exactly one capture
\* storage and one finalizer in the emitted code, and has been assigned once
\* the expansion has run.
C4_EveryCaptureAssigned ==
  /\ Compiled => DOMAIN code.variable_map = CaptureNames
  /\ Accepted => DOMAIN bindings = CaptureNames


\* The variable tag of the state the scanner is in after k characters.
TagAfter(k) == dfa.nodes[trail[k + 1]].variable.name

\* The characters s .. e-1 are a maximal run consumed into states tagged
\* name: the character s entered the tagged states from an untagged state,
\* the characters up to e-1 stayed in them, and the character e left them, or
\* the input ended at e.
IsRun(name, s, e) ==
  /\ 0 <= s /\ s < e /\ e <= Len(input)
  /\ TagAfter(s) = << >>
  /\ \A k \in (s + 1)..e : TagAfter(k) = name
  /\ e < Len(input) => TagAfter(e + 1) = << >>

\* The maximal runs of a name, in input order.
Runs(name) ==
  LET ends == { e \in 1..Len(input) : \E s \in 0..(e - 1) : IsRun(name, s, e) }
      sorted == SortedVec(ends)
  IN [i \in 1..Len(sorted) |->
        << CHOOSE s \in 0..(sorted[i] - 1) : IsRun(name, s, sorted[i]), sorted[i] >>]

\* The variables of the emitted code of a kind.
VariablesOfKind(kind) ==
  { name \in DOMAIN code.variable_map : code.variable_map[name].kind = kind }

\* An example of the tests: the pattern on the input accepts, with the
\* bindings given.
Example(p, i, expected) ==
  (pattern = p /\ pc \in {"error", "panic"})
    \/ (pattern = p /\ input = i /\ (Accepted \/ Rejected))
    => (Accepted /\ bindings = expected)

Binding1(name, value) == [n \in {name} |-> value]
Binding2(name1, value1, name2, value2) ==
  [n \in {name1, name2} |-> IF n = name1 THEN value1 ELSE value2]

\* C5: when the scanner accepts, the range committed for a Singular capture
\* is a maximal run of characters consumed into the states tagged with it,
\* and the binding is the text of that run; `{var}` on `42` gives 42,
\* `A{var}B{var2}` on `A1B2` gives 1 and 2, `A*{foo}B+{bar}` on `AAA740BB5.0`
\* gives 740 and 5.0.
C5_SingularIsMaximalRun ==
  /\ Accepted =>
       \A name \in VariablesOfKind("Singular") :
         LET range == storage[code.variable_map[name].ident][1] IN
         /\ IsRun(name, range[1], range[2])
         /\ bindings[name] = << Slice(range) >>
  /\ Example(Str(<< "{", "v", "a", "r", "}" >>), Str(<< "4", "2" >>), Binding1(Str(<< "v", "a", "r" >>), << Str(<< "4", "2" >>) >>))
  /\ Example(Str(<< "A", "{", "v", "a", "r", "}", "B", "{", "v", "a", "r", "2", "}" >>), Str(<< "A", "1", "B", "2" >>), Binding2(Str(<< "v", "a", "r" >>), << Str(<< "1" >>) >>, Str(<< "v", "a", "r", "2" >>), << Str(<< "2" >>) >>))
  /\ Example(Str(<< "A", "*", "{", "f", "o", "o", "}", "B", "+", "{", "b", "a", "r", "}" >>), Str(<< "A", "A", "A", "7", "4", "0", "B", "B", "5", ".", "0" >>), Binding2(Str(<< "f", "o", "o" >>), << Str(<< "7", "4", "0" >>) >>, Str(<< "b", "a", "r" >>), << Str(<< "5", ".", "0" >>) >>))

\* The Singular captures the scanner has entered are committed as C5 says.
C5_EnteredSingularIsMaximalRun ==
  Accepted =>
    \A name \in VariablesOfKind("Singular") :
      (\E k \in 1..Len(input) : TagAfter(k) = name) =>
        LET range == storage[code.variable_map[name].ident][1] IN
        /\ IsRun(name, range[1], range[2])
        /\ bindings[name] = << Slice(range) >>

\* C6: when the scanner accepts, the list committed for a Multiple capture
\* holds one range per maximal run of characters consumed into the states
\* tagged with it, in input order; `\[({result*},?)*\]` on `[1,2,3]` gives
\* [1,2,3], `({var*},)*` on `1,2,3,4,` gives [1,2,3,4] and
\* `{result}: ({operands*} ?)+` on `3267: 81 40 27` gives 3267 and [81,40,27].
C6_MultipleIsListOfRuns ==
  /\ Accepted =>
       \A name \in VariablesOfKind("Multiple") :
         storage[code.variable_map[name].ident] = Runs(name)
  /\ Example(Str(<< "\\", "[", "(", "{", "r", "e", "s", "u", "l", "t", "*", "}", ",", "?", ")", "*", "\\", "]" >>), Str(<< "[", "1", ",", "2", ",", "3", "]" >>), Binding1(Str(<< "r", "e", "s", "u", "l", "t" >>), << Str(<< "1" >>), Str(<< "2" >>), Str(<< "3" >>) >>))
  /\ Example(Str(<< "(", "{", "v", "a", "r", "*", "}", ",", ")", "*" >>), Str(<< "1", ",", "2", ",", "3", ",", "4", "," >>), Binding1(Str(<< "v", "a", "r" >>), << Str(<< "1" >>), Str(<< "2" >>), Str(<< "3" >>), Str(<< "4" >>) >>))
  /\ Example(Str(<< "{", "r", "e", "s", "u", "l", "t", "}", ":", " ", "(", "{", "o", "p", "e", "r", "a", "n", "d", "s", "*", "}", " ", "?", ")", "+" >>), Str(<< "3", "2", "6", "7", ":", " ", "8", "1", " ", "4", "0", " ", "2", "7" >>),
             Binding2(Str(<< "r", "e", "s", "u", "l", "t" >>), << Str(<< "3", "2", "6", "7" >>) >>, Str(<< "o", "p", "e", "r", "a", "n", "d", "s" >>), << Str(<< "8", "1" >>), Str(<< "4", "0" >>), Str(<< "2", "7" >>) >>))

\* C7: whenever the scanner accepts, every substring committed to a capture
\* binding has at least one character.
C7_CaptureNotEmpty ==
  Accepted =>
    \A name \in DOMAIN bindings :
      \A i \in 1..Len(bindings[name]) : Len(bindings[name][i]) >= 1


\* The variable nodes of a group of NFA nodes.
VariableNodes(group) == { i \in 1..Len(group) : nfa.nodes[group[i]].kind = "Variable" }

\* Dfa::try_from has returned: Ok from the end of dedup on, Err with the
\* error of compute_group.
DfaOk == pc = "generate" \/ Compiled \/ Accepted \/ Rejected
DfaErr == pc = "error" /\ dfa.err.kind # "None"

\* C8: DFA construction fails with AmbiguousVariables exactly when a group
\* materialised by the subset construction holds two variable nodes, which
\* bear the two names of the error; otherwise every state's variable is that
\* of the one variable node of its group, or none.  `A{foo}B?{bar}` fails
\* naming foo and bar, `A{x}B{y}` succeeds.
C8_AmbiguousVariables ==
  /\ DfaErr =>
       /\ dfa.err.kind = "AmbiguousVariables"
       /\ \E group \in DOMAIN builder.nfa_to_dfa :
            \E i, j \in VariableNodes(group) :
              /\ i < j
              /\ nfa.nodes[group[i]].var.name = dfa.err.first
              /\ nfa.nodes[group[j]].var.name = dfa.err.second
              /\ dfa.err.first # dfa.err.second
  /\ DfaOk =>
       \A group \in DOMAIN builder.nfa_to_dfa :
         LET variable == builder.nodes[builder.nfa_to_dfa[group]].variable IN
         /\ Cardinality(VariableNodes(group)) <= 1
         /\ \A i \in VariableNodes(group) : variable = nfa.nodes[group[i]].var
         /\ VariableNodes(group) = {} => variable = NoVariable
  /\ pattern = Str(<< "A", "{", "f", "o", "o", "}", "B", "?", "{", "b", "a", "r", "}" >>) /\ pc \notin {"from_str", "nfa", "dfa", "get_connected_nodes", "pending_nodes"}
       => DfaErr /\ dfa.err = DfaError("AmbiguousVariables", Str(<< "f", "o", "o" >>), Str(<< "b", "a", "r" >>))
  /\ pattern = Str(<< "A", "{", "x", "}", "B", "{", "y", "}" >>) => pc # "error"

\* `A{foo}B?{bar}` has failed with AmbiguousVariables { foo, bar }.
C8_Witness ==
  /\ pattern = Str(<< "A", "{", "f", "o", "o", "}", "B", "?", "{", "b", "a", "r", "}" >>)
  /\ DfaErr
  /\ dfa.err = DfaError("AmbiguousVariables", Str(<< "f", "o", "o" >>), Str(<< "b", "a", "r" >>))
  /\ \E group \in DOMAIN builder.nfa_to_dfa : Cardinality(VariableNodes(group)) = 2

\* Nfa::try_from has returned.
NfaReturned == regex.err.kind = "None" /\ pc \notin {"from_str", "nfa"}

\* C9: NFA construction fails with DuplicateVariable { name } exactly when a
\* name occurs in two capture positions of the pattern, name being such a
\* name, and then no DFA is built; otherwise it succeeds.  `{foo}bar{foo}`
\* fails with DuplicateVariable { foo }.
C9_DuplicateVariable ==
  /\ NfaReturned =>
       /\ nfa.err.kind = "DuplicateVariable"
            <=> \E i, j \in CapturePositions :
                  i # j /\ regex.arena[i].var.name = regex.arena[j].var.name
       /\ nfa.err.kind = "DuplicateVariable" =>
            /\ \E i, j \in CapturePositions :
                 /\ i # j
                 /\ regex.arena[i].var.name = nfa.err.name
                 /\ regex.arena[j].var.name = nfa.err.name
            /\ pc = "error"
            /\ builder = DefaultDfaBuilder
            /\ dfa = NoDfa
       /\ nfa.err.kind \in {"None", "DuplicateVariable"}
  /\ pattern = Str(<< "{", "f", "o", "o", "}", "b", "a", "r", "{", "f", "o", "o", "}" >>) /\ pc \notin {"from_str", "nfa"}
       => nfa.err = NfaError("DuplicateVariable", Str(<< "f", "o", "o" >>))

\* `{foo}bar{foo}` has failed with DuplicateVariable { foo }.
C9_Witness ==
  /\ pattern = Str(<< "{", "f", "o", "o", "}", "b", "a", "r", "{", "f", "o", "o", "}" >>)
  /\ pc = "error"
  /\ nfa.err = NfaError("DuplicateVariable", Str(<< "f", "o", "o" >>))

\* The epsilon closure of a set of NFA nodes.
RECURSIVE EpsilonClosure(_)
EpsilonClosure(nodes) ==
  LET more == nodes \cup { edge \in UNION { Elems(nfa.nodes[n].edges) : n \in nodes } :
                            is_epsilon(nfa.nodes[edge].edge_kind) }
  IN IF more = nodes THEN nodes ELSE EpsilonClosure(more)

\* The NFA nodes a group reaches on a character by the edges of a kind.
Targets(group, match(_)) ==
  { edge \in UNION { Elems(nfa.nodes[group[i]].edges) : i \in 1..Len(group) } :
      ~is_epsilon(nfa.nodes[edge].edge_kind) /\ match(nfa.nodes[edge].edge_kind) }

ExplicitMatch(char, edge_pattern) ==
  \/ edge_pattern.k = "Char" /\ edge_pattern.start = char
  \/ edge_pattern.k = "Range" /\ edge_pattern.start <= char /\ char <= edge_pattern.end

\* The group of a DFA node.
GroupOf(dfa_idx) ==
  CHOOSE group \in DOMAIN builder.nfa_to_dfa : builder.nfa_to_dfa[group] = dfa_idx

\* C10: in every DFA state, as the subset construction computes it, the
\* target of the edge of an explicit character is the epsilon closure of the
\* NFA targets of the literal and range edges matching the character united
\* with the NFA targets of the AnyChar edges of the group; `(abc|.)` accepts
\* `a`.
C10_GreedyWildcardWins ==
  /\ pc \in {"pending_nodes", "get_connected_nodes"} =>
       \A g \in 1..Len(computed) :
         LET group == computed[g]
             edges == builder.nodes[builder.nfa_to_dfa[group]].edges.edges
         IN \A char \in DOMAIN edges :
              GroupOf(edges[char]) =
                SortedVec(EpsilonClosure(
                  Targets(group, LAMBDA edge_pattern : ExplicitMatch(char, edge_pattern))
                  \cup Targets(group, LAMBDA edge_pattern : edge_pattern.k = "AnyChar")))
  /\ Example(Str(<< "(", "a", "b", "c", "|", ".", ")" >>), Str(<< "a" >>), EmptyMap)

\* `(abc|.)` has accepted `a`, by the edge of `a` of a state that has a
\* wildcard edge too.
C10_Witness ==
  /\ pattern = Str(<< "(", "a", "b", "c", "|", ".", ")" >>)
  /\ input = Str(<< "a" >>)
  /\ Accepted
  /\ dfa.nodes[trail[1]].edges.default # 0
  /\ Str(<< "a" >>)[1] \in DOMAIN dfa.nodes[trail[1]].edges.edges

\* An example of the tests that fails: the emitted code of the pattern
\* panics on the input with an unexpected character.
RejectExample(p, i) ==
  (pattern = p /\ pc \in {"error", "panic"})
    \/ (pattern = p /\ input = i /\ (Accepted \/ Rejected))
    => pc = "unexpected_character"

\* C11: in every DFA state, as the subset construction computes it, the
\* default edge leads to the epsilon closure of the AnyChar targets of the
\* group when there are any, the AnyCharLazy targets being dropped; else to
\* the closure of the AnyCharLazy targets, and there is no default edge when
\* there are none either.  `.{var}.` on `123` gives var = 2 and rejects
\* `1234`.
C11_LazyDefaultDropped ==
  /\ pc \in {"pending_nodes", "get_connected_nodes"} =>
       \A g \in 1..Len(computed) :
         LET group == computed[g]
             default == builder.nodes[builder.nfa_to_dfa[group]].edges.default
             any == Targets(group, LAMBDA edge_pattern : edge_pattern.k = "AnyChar")
             lazy == Targets(group, LAMBDA edge_pattern : edge_pattern.k = "AnyCharLazy")
         IN IF any # {}
              THEN default # 0 /\ GroupOf(default) = SortedVec(EpsilonClosure(any))
              ELSE IF lazy # {}
                THEN default # 0 /\ GroupOf(default) = SortedVec(EpsilonClosure(lazy))
                ELSE default = 0
  /\ Example(Str(<< ".", "{", "v", "a", "r", "}", "." >>), Str(<< "1", "2", "3" >>),
             Binding1(Str(<< "v", "a", "r" >>), << Str(<< "2" >>) >>))
  /\ RejectExample(Str(<< ".", "{", "v", "a", "r", "}", "." >>), Str(<< "1", "2", "3", "4" >>))

\* `.{var}.` has accepted `123` with var = 2, through a state whose group
\* has an AnyChar edge and an AnyCharLazy edge.
C11_Witness ==
  /\ pattern = Str(<< ".", "{", "v", "a", "r", "}", "." >>)
  /\ input = Str(<< "1", "2", "3" >>)
  /\ Accepted
  /\ bindings = Binding1(Str(<< "v", "a", "r" >>), << Str(<< "2" >>) >>)
  /\ \E group \in DOMAIN builder.nfa_to_dfa :
       /\ Targets(group, LAMBDA edge_pattern : edge_pattern.k = "AnyChar") # {}
       /\ Targets(group, LAMBDA edge_pattern : edge_pattern.k = "AnyCharLazy") # {}

\* The DFA nodes Dfa::iter reaches from the root of the Dfa returned.
Reachable == Elems(dfa_iter(dfa))

\* C12: in the Dfa that Dfa::try_from returns, no two distinct nodes
\* reachable from the root, the root included, are equal as DfaNode values
\* (accepting flag, variable, default target and character edges); also for
\* `a*`, whose root is equal to another node.
C12_NoEqualStates ==
  pc = "generate" =>
    \A i, j \in Reachable : i # j => dfa.nodes[i] # dfa.nodes[j]

\* The DFA node of the state the scanner is in.
CurrentNode == dfa.nodes[DfaOf(state)]

\* The expected Vec of a panic names exactly the characters of a set, or is
\* the marker `End of input` when the set is empty.
Expects(expected, chars) ==
  IF chars = {} THEN expected = << "End of input" >>
  ELSE Elems(expected) = chars /\ Len(expected) = Cardinality(chars)

\* A turn of the scanner's loop in a state without default edge, on a
\* character that is no key of the state's edges, panics with the state's
\* characters as the expected ones, and leaves the state as it is.
C13_Step ==
  ( /\ pc = "loop"
    /\ pos < Len(input)
    /\ CurrentNode.edges.default = 0
    /\ input[pos + 1] \notin DOMAIN CurrentNode.edges.edges )
  => /\ pc' = "unexpected_character"
     /\ state' = state
     /\ trail' = trail
     /\ panic_message'.text = "Unexpected character"
     /\ panic_message'.next_char = input[pos + 1]
     /\ Expects(panic_message'.expected, DOMAIN CurrentNode.edges.edges)

\* C13: in a state of the DFA without default edge, a character that is no
\* key of the state's edge map ends the scan with an unexpected-character
\* panic whose expected set is exactly the keys of the edge map, or `End of
\* input` when the state has no edge at all, and the scanner does not change
\* state; `[ABC]*` on `ABCD` fails on D expecting A, B, C.
C13_UnexpectedCharacter ==
  /\ [][C13_Step]_vars
  /\ [](pattern = Str(<< "[", "A", "B", "C", "]", "*" >>) =>
         /\ pc \notin {"error", "panic"}
         /\ (input = Str(<< "A", "B", "C", "D" >>) /\ (Accepted \/ Rejected)) =>
              /\ pc = "unexpected_character"
              /\ pos = 4
              /\ panic_message.next_char = Str(<< "D" >>)[1]
              /\ Elems(panic_message.expected) = Elems(Str(<< "A", "B", "C" >>)))

\* `[ABC]*` has failed on the D of `ABCD`, expecting A, B, C.
C13_Witness ==
  /\ pattern = Str(<< "[", "A", "B", "C", "]", "*" >>)
  /\ input = Str(<< "A", "B", "C", "D" >>)
  /\ pc = "unexpected_character"
  /\ panic_message.next_char = Str(<< "D" >>)[1]
  /\ Elems(panic_message.expected) = Elems(Str(<< "A", "B", "C" >>))
  /\ CurrentNode.edges.default = 0

\* The storage after the variable of the current state is closed against
\* end: a Singular variable is assigned the range, a Multiple variable has it
\* appended.
Closed(end) ==
  LET var == code.variable_map[CurrentNode.variable.name] IN
  [ident \in DOMAIN storage |->
     IF ident # var.ident THEN storage[ident]
     ELSE IF var.kind = "Singular" THEN << << variable_start, end >> >>
     ELSE storage[ident] \o << << variable_start, end >> >>]

\* The turn of the scanner's loop at the end of the input.
C14_Step ==
  (pc = "loop" /\ pos = Len(input)) =>
    IF CurrentNode.is_accepting
      THEN /\ pc' = "finalizers"
           /\ panic_message' = NoPanicMessage
           /\ storage' = IF CurrentNode.variable # NoVariable
                           THEN Closed(Len(input)) ELSE storage
      ELSE /\ pc' = "unexpected_end"
           /\ panic_message' =
                PanicMessage("Unexpected end of input", 0, << >>, code.states[DfaOf(state)])
           /\ storage' = storage
           /\ bindings' = EmptyMap

\* C14: at the end of the input the scanner leaves its loop, and the
\* finalizers assign the captures, if and only if the state it is in is
\* accepting; the variable of an accepting tagged state is closed against the
\* length of the input first, assigned if Singular and appended if Multiple;
\* in a state that is not accepting the scan panics with an unexpected end of
\* input naming the state, and no capture is assigned.
C14_EndOfInput ==
  /\ [][C14_Step]_vars
  /\ [](pc = "unexpected_end" => bindings = EmptyMap /\ ~CurrentNode.is_accepting)
  /\ [](pc \in {"finalizers", "done"} => CurrentNode.is_accepting /\ pos = Len(input))
  /\ [](pc # "slice_panic")

\* The input has ended in an accepting state tagged with a variable, which
\* has been closed against the length of the input.
C14_Witness ==
  /\ pc = "finalizers"
  /\ Len(input) >= 2
  /\ CurrentNode.variable # NoVariable
  /\ storage[code.variable_map[CurrentNode.variable.name].ident]
       = << << variable_start, Len(input) >> >>
  /\ variable_start > 0

\* C15: the empty pattern compiles; the only node reachable from the root of
\* its Dfa is the root, which is accepting, bears no variable and has no
\* edge; its scanner accepts the empty input and panics on every other input
\* at the first character, expecting `End of input`.
C15_EmptyPattern ==
  pattern = << >> =>
    /\ pc \notin {"error", "panic"}
    /\ (pc = "generate" \/ Compiled) =>
         /\ Reachable = {dfa.root}
         /\ dfa.nodes[dfa.root] = DfaNode(TRUE, NoVariable, DfaEdges(0, EmptyMap))
    /\ (Accepted \/ Rejected) =>
         IF input = << >> THEN Accepted /\ bindings = EmptyMap
         ELSE /\ pc = "unexpected_character"
              /\ pos = 1
              /\ panic_message =
                   PanicMessage("Unexpected character", input[1], << "End of input" >>, 0)

\* The scanner of the empty pattern has failed on the first character of an
\* input of several.
C15_Witness ==
  /\ pattern = << >>
  /\ Len(input) >= 2
  /\ pc = "unexpected_character"
  /\ pos = 1
  /\ panic_message.expected = << "End of input" >>

\* The patterns a class shortcut stands for: CR, LF, TAB and space; 0-9;
\* a-z, A-Z, 0-9 and the underscore.
ClassPatterns(class) ==
  CASE class = "Whitespace" ->
         { Pattern("Char", 13, 13), Pattern("Char", 10, 10), Pattern("Char", 9, 9),
           Pattern("Char", 32, 32) }
    [] class = "Digit" -> { Pattern("Range", 48, 57) }
    [] class = "Word" ->
         { Pattern("Range", 97, 122), Pattern("Range", 65, 90), Pattern("Range", 48, 57),
           Pattern("Char", 95, 95) }

\* The node is an Or of Literal nodes whose patterns are those of the class.
IsClassNode(node_idx, class) ==
  LET node == regex.arena[node_idx] IN
  /\ node.type = "Or"
  /\ \A i \in 1..Len(node.children) : regex.arena[node.children[i]].type = "Literal"
  /\ { regex.arena[node.children[i]].pat : i \in 1..Len(node.children) } = ClassPatterns(class)
  /\ Len(node.children) = Cardinality(ClassPatterns(class))

\* The node a postfix operator makes.
PostfixType(postfix) ==
  CASE postfix = "QuestionMark" -> "ZeroOrOne"
    [] postfix = "Star" -> "Many"
    [] postfix = "Plus" -> "OneOrMore"

IsVariableTokens(tokens, multiple) ==
  LET n == Len(tokens) - (IF multiple THEN 3 ELSE 2) IN
  /\ n >= 1
  /\ tokens[1] = TokLeftBrace
  /\ \A i \in 2..(n + 1) : tokens[i].t = "Char"
  /\ multiple => tokens[n + 2] = TokPostfix("Star")
  /\ tokens[Len(tokens)] = TokRightBrace

\* The name between the braces.
VariableName(tokens, multiple) ==
  [i \in 1..(Len(tokens) - (IF multiple THEN 3 ELSE 2)) |-> tokens[i + 1].c]

\* C17: `{name*}` parses to a Variable node of kind Multiple and `{name}` to
\* one of kind Singular, the name being the run of literal characters after
\* the `{`.
C17_VariableKind ==
  pc # "from_str" =>
    \A multiple \in BOOLEAN :
      LET tokens == tokenize(pattern) IN
      IsVariableTokens(tokens, multiple) =>
        /\ regex.err.kind = "None"
        /\ regex.arena[regex.root] =
             NodeVariable(RegexVariable(VariableName(tokens, multiple),
                                        IF multiple THEN "Multiple" ELSE "Singular"))

\* The tokens are those of one atom: a literal character, `.`, a class
\* shortcut, a capture `{x}`, the group `(ab)` or the class `[abc]`.
IsAtom(tokens) ==
  \/ Len(tokens) = 1 /\ tokens[1].t \in {"Char", "Dot", "CharacterClass"}
  \/ IsVariableTokens(tokens, FALSE)
  \/ tokens = tokenize(Str(<< "(", "a", "b", ")" >>))
  \/ tokens = tokenize(Str(<< "[", "a", "b", "c", "]" >>))

\* The tree of an atom followed by a postfix operator: the tree of the atom
\* and, as the root, the operator's node over the atom's root.
WithPostfix(atom, postfix) ==
  RegexResult(NoError, Append(atom.arena, NodeUnary(PostfixType(postfix), atom.root)),
              Len(atom.arena) + 1)

\* C18: an atom followed by one postfix operator parses to ZeroOrOne, Many
\* or OneOrMore of the atom's node, for a capture `{x}` as for a literal, a
\* group and a class: `{x}?`, `{x}*`, `{x}+`, `a?`, `(ab)*`, `[abc]+`.
C18_PostfixAfterAtom ==
  pc # "from_str" =>
    \A postfix \in {"QuestionMark", "Star", "Plus"} :
      LET tokens == tokenize(pattern) IN
      (Len(tokens) >= 2 /\ Last(tokens) = TokPostfix(postfix) /\ IsAtom(Front(tokens)))
        => regex = WithPostfix(parse(Front(tokens)), postfix)

\* The syntax tree below a node, as a value.
RECURSIVE Tree(_, _)
Tree(arena, node_idx) ==
  LET node == arena[node_idx] IN
  [type |-> node.type, pat |-> node.pat, var |-> node.var,
   children |-> [i \in 1..Len(node.children) |-> Tree(arena, node.children[i])]]

\* The trees of a literal character and of an operator over trees.
Lit(c) == [type |-> "Literal", pat |-> Pattern("Char", Ch(c), Ch(c)), var |-> NoVariable,
           children |-> << >>]
Op(type, children) ==
  [type |-> type, pat |-> NoPattern, var |-> NoVariable, children |-> children]

\* The pattern parses to the tree.
ParsesTo(p, tree) ==
  (pattern = p /\ pc # "from_str") =>
    regex.err.kind = "None" /\ Tree(regex.arena, regex.root) = tree

\* C19: postfix operators bind tighter than concatenation and concatenation
\* tighter than alternation, and a concatenation or an alternation of one
\* element is that element: `a?|b|c+d` parses to Or(ZeroOrOne(a), b,
\* And(OneOrMore(c), d)) and `(ab|cd)*` to Many(Or(And(a, b), And(c, d))).
C19_Precedence ==
  /\ ParsesTo(Str(<< "a", "?", "|", "b", "|", "c", "+", "d" >>),
              Op("Or", << Op("ZeroOrOne", << Lit("a") >>), Lit("b"),
                          Op("And", << Op("OneOrMore", << Lit("c") >>), Lit("d") >>) >>))
  /\ ParsesTo(Str(<< "(", "a", "b", "|", "c", "d", ")", "*" >>),
              Op("Many", << Op("Or", << Op("And", << Lit("a"), Lit("b") >>),
                                        Op("And", << Lit("c"), Lit("d") >>) >>) >>))
  /\ ParsesTo(Str(<< "a", "|", "b", "*" >>), Op("Or", << Lit("a"), Op("Many", << Lit("b") >>) >>))
  /\ ParsesTo(Str(<< "a", "b", "*" >>), Op("And", << Lit("a"), Op("Many", << Lit("b") >>) >>))
  /\ ParsesTo(Str(<< "a", "|", "b" >>), Op("Or", << Lit("a"), Lit("b") >>))
  /\ ParsesTo(Str(<< "a", "b", "|" >>), Op("Or", << Op("And", << Lit("a"), Lit("b") >>),
                                                     Op("And", << >>) >>))
  /\ ParsesTo(Str(<< "a" >>), Lit("a"))
  /\ ParsesTo(Str(<< "(", "a", ")" >>), Lit("a"))
  /\ (pc # "from_str" /\ regex.err.kind = "None"
        /\ \A i \in 1..Len(tokenize(pattern)) : tokenize(pattern)[i].t # "CharacterClass")
       => \A i \in 1..Len(regex.arena) :
            regex.arena[i].type \in {"And", "Or"} => Len(regex.arena[i].children) # 1

\* `a?|b|c+d` has parsed to Or(ZeroOrOne(a), b, And(OneOrMore(c), d)).
C19_Witness ==
  /\ pattern = Str(<< "a", "?", "|", "b", "|", "c", "+", "d" >>)
  /\ pc = "nfa"
  /\ Tree(regex.arena, regex.root) =
       Op("Or", << Op("ZeroOrOne", << Lit("a") >>), Lit("b"),
                   Op("And", << Op("OneOrMore", << Lit("c") >>), Lit("d") >>) >>)

\* The pattern is rejected with UnexpectedPostfixToken { got: postfix }.
RejectsPostfix(p, postfix) ==
  (pattern = p /\ pc # "from_str") =>
    /\ pc = "error"
    /\ regex.err = ParseError("UnexpectedPostfixToken", TokPostfix(postfix), TokEof)

\* C20: a postfix operator without a value before it is rejected with the
\* unexpected-postfix error that carries the operator: a leading `*`, the
\* second `*` of `a**` and the `+` of `a?+`, at top level and inside a group.
C20_UnexpectedPostfix ==
  /\ RejectsPostfix(Str(<< "*" >>), "Star")
  /\ RejectsPostfix(Str(<< "a", "*", "*" >>), "Star")
  /\ RejectsPostfix(Str(<< "a", "?", "+" >>), "Plus")
  /\ RejectsPostfix(Str(<< "(", "*", ")" >>), "Star")
  /\ RejectsPostfix(Str(<< "(", "a", "*", "*", ")" >>), "Star")
  /\ RejectsPostfix(Str(<< "(", "a", "?", "+", ")" >>), "Plus")


\* The pattern is rejected by the parser.
ParseRejects(p) ==
  (pattern = p /\ pc # "from_str") => (pc = "error" /\ regex.err.kind # "None")

\* C21: a `|` that is not followed by a value is a parse error: `a|`, `|a`,
\* `a||b` and `(a|)` are rejected, and only the empty pattern parses to a
\* tree holding an And node without children.
C21_EmptyConcatenation ==
  /\ ParseRejects(Str(<< "a", "|" >>))
  /\ ParseRejects(Str(<< "|", "a" >>))
  /\ ParseRejects(Str(<< "a", "|", "|", "b" >>))
  /\ ParseRejects(Str(<< "(", "a", "|", ")" >>))
  /\ (pc # "from_str" /\ regex.err.kind = "None" /\ Len(pattern) > 0)
       => \A i \in 1..Len(regex.arena) :
            regex.arena[i].type = "And" => Len(regex.arena[i].children) > 0


\* C22: a pattern that ends in a `\` with no character after it is rejected
\* when it is compiled; no code is generated for it as if the `\` were absent.
C22_TrailingBackslash ==
  (pc # "from_str" /\ Len(pattern) > 0 /\ Last(pattern) = Ch("\\")
     /\ (Len(pattern) = 1 \/ pattern[Len(pattern) - 1] # Ch("\\")))
    => pc = "error"


\* The Regex that Regex::from_str returns for the rendered text.
Reparsed == from_str(rendered)

\* The rendered text parses to a tree equal to the tree it was rendered from.
RoundTrips ==
  /\ Reparsed.err.kind = "None"
  /\ Tree(Reparsed.arena, Reparsed.root) = Tree(regex.arena, regex.root)

\* C23: rendering the tree of a pattern that parses and parsing the rendered
\* text yields a tree equal to the first, also for `(a|b)c`, `(ab)*`,
\* `[a-z]` and `\{`.
C23_DisplayRoundTrip == pc = "to_string" => RoundTrips


\* The state the scanner read the k-th character of the input in.
StateAt(k) == dfa.nodes[trail[k]]

\* The k-th character has been read and has an edge of its own in the state,
\* a state tagged with a variable, that it was read in.
ExplicitInTagged(k) ==
  /\ k + 1 <= Len(trail)
  /\ StateAt(k).variable # NoVariable
  /\ input[k] \in DOMAIN StateAt(k).edges.edges

\* The ranges committed for a capture name.
RangesOf(name) == Elems(storage[code.variable_map[name].ident])

\* In every state of the subset construction without an AnyChar edge, the
\* target of the edge of an explicit character holds no NFA node that the
\* group reaches through an AnyCharLazy edge only.
LazyYieldsInGroups ==
  pc \in {"pending_nodes", "get_connected_nodes"} =>
    \A g \in 1..Len(computed) :
      LET group == computed[g]
          edges == builder.nodes[builder.nfa_to_dfa[group]].edges.edges
          lazy == Targets(group, LAMBDA edge_pattern : edge_pattern.k = "AnyCharLazy")
      IN Targets(group, LAMBDA edge_pattern : edge_pattern.k = "AnyChar") = {} =>
           \A char \in DOMAIN edges :
             Elems(GroupOf(edges[char]))
               \cap (EpsilonClosure(lazy)
                       \ EpsilonClosure(Targets(group, LAMBDA edge_pattern :
                                                         ExplicitMatch(char, edge_pattern))))
               = {}

\* A character read in a tagged state that has an edge of its own there is
\* taken by that edge, into an untagged state.
ExplicitLeavesCapture ==
  \A k \in 1..Len(input) :
    ExplicitInTagged(k) =>
      /\ trail[k + 1] = StateAt(k).edges.edges[input[k]]
      /\ dfa.nodes[trail[k + 1]].variable = NoVariable

\* C24: the lazy wildcard yields to the explicit edges in every state of the
\* subset construction; a character read in a state tagged with a variable
\* that has an edge of its own there goes by that edge and not by the
\* variable's self-loop; and no character of a committed substring is such a
\* character: none was read in a state tagged with the capture that has an
\* edge for it.
C24_LazyYieldsToExplicit ==
  /\ LazyYieldsInGroups
  /\ ExplicitLeavesCapture
  /\ Accepted =>
       \A name \in DOMAIN code.variable_map : \A range \in RangesOf(name) :
         \A k \in (range[1] + 1)..range[2] :
           ~(StateAt(k).variable.name = name /\ input[k] \in DOMAIN StateAt(k).edges.edges)

\* `A{var}B{var2}` has accepted `A1B2`: the B was read in the state tagged
\* var, which has an edge for B, and ended the capture.
C24_Witness ==
  /\ pattern = Str(<< "A", "{", "v", "a", "r", "}", "B", "{", "v", "a", "r", "2", "}" >>)
  /\ input = Str(<< "A", "1", "B", "2" >>)
  /\ Accepted
  /\ ExplicitInTagged(3)
  /\ bindings[Str(<< "v", "a", "r" >>)] = << Str(<< "1" >>) >>


\* The state a Vec of DfaNodes goes to from state n on a character: by the
\* character's edge, else by the default edge; 0 when there is none.  The
\* character 0 stands for every character without an edge of its own.
Delta(nodes, n, char) ==
  IF n = 0 THEN 0
  ELSE IF char \in DOMAIN nodes[n].edges.edges THEN nodes[n].edges.edges[char]
  ELSE nodes[n].edges.default

\* The characters that have an edge in some node, and 0 for the others.
EdgeChars(nodes) == {0} \cup UNION { DOMAIN nodes[n].edges.edges : n \in 1..Len(nodes) }

\* The pairs of states that two Vecs of DfaNodes are in after reading the
\* same characters, starting from the pairs given.
RECURSIVE PairsReached(_, _, _)
PairsReached(old, new, pairs) ==
  LET more == pairs \cup { << Delta(old, p[1], char), Delta(new, p[2], char) >> :
                             p \in pairs, char \in EdgeChars(old) \cup EdgeChars(new) }
  IN IF more = pairs THEN pairs ELSE PairsReached(old, new, more)

\* From the root, the two Vecs of DfaNodes reject the same inputs and are,
\* after the same characters, in states with the same accepting flag and the
\* same variable.
SameBehaviour(old, new, root) ==
  \A p \in PairsReached(old, new, {<< root, root >>}) :
    /\ p[1] = 0 <=> p[2] = 0
    /\ p[1] # 0 =>
         /\ old[p[1]].is_accepting = new[p[2]].is_accepting
         /\ old[p[1]].variable = new[p[2]].variable

\* A turn of the loop of DfaBuilder::dedup leaves the behaviour of the nodes
\* from the root as it was.
C25_Step ==
  pc = "dedup" => SameBehaviour(builder.nodes, builder'.nodes, builder.nfa_to_dfa[root_group])

\* C25: DfaBuilder::dedup preserves behaviour: run from the root that
\* Dfa::try_from returns, the nodes after each turn of dedup's loop accept the
\* same inputs as the nodes before it and pass, character by character,
\* through states with the same accepting flag and the same variable.
C25_DedupPreservesBehaviour == [][C25_Step]_vars

\* Dfa::try_from has returned a Dfa in which dedup has turned the edges to a
\* duplicate to the node it is equal to: the duplicate, made as the target
\* of an edge, is the target of none.
C25_Witness ==
  /\ pc = "generate"
  /\ \E d \in fixed_duplicates :
       /\ d # dfa.root
       /\ \A n \in 1..Len(dfa.nodes) : d \notin get_neighbors(dfa, n)


\* The NFA nodes reached from a set of nodes by following successor edges.
RECURSIVE NfaReach(_)
NfaReach(nodes) ==
  LET more == nodes \cup UNION { Elems(nfa.nodes[n].edges) : n \in nodes }
  IN IF more = nodes THEN nodes ELSE NfaReach(more)

\* C26: in the NFA of a pattern that parses, every node of the arena is
\* reached from the root by successor edges, the incoming kind of the root is
\* epsilon, and exactly one node is accepting; also for a pattern with the
\* empty class `[]`.
C26_NfaShape ==
  (NfaReturned /\ nfa.err.kind = "None") =>
    /\ NfaReach({nfa.root}) = 1..Len(nfa.nodes)
    /\ is_epsilon(nfa.nodes[nfa.root].edge_kind)
    /\ Cardinality({ n \in 1..Len(nfa.nodes) : nfa.nodes[n].is_accepting }) = 1


\* The scalar values of the ASCII characters, the control characters of `\s`
\* included.
AsciiChars == 1..(Ch("~") + 1)

\* The emitted code of the pattern never accepts.
AcceptsNothing(p) ==
  /\ (pattern = p /\ pc # "from_str") => pc \notin {"error", "panic"}
  /\ pattern = p => ~Accepted

\* The emitted code of the pattern has ended on the input by accepting it.
AcceptsInput(p, i) == (pattern = p /\ input = i /\ (Accepted \/ Rejected)) => Accepted

\* The emitted code of the pattern has ended on the input by a panic.
RejectsInput(p, i) == (pattern = p /\ input = i /\ (Accepted \/ Rejected)) => Rejected

\* C27: in every state of the subset construction the characters with an
\* edge of their own are those equal to a Char of the group's edges or
\* between the two ends of a Range of them, both ends included; a Range whose
\* start is above its end gives no edge: `[a-b]` accepts a and b and nothing
\* else, `[A-F]` accepts A and F but not G, and `[z-a]` compiles to code that
\* accepts no input.
C27_RangeEdges ==
  /\ pc \in {"pending_nodes", "get_connected_nodes"} =>
       \A g \in 1..Len(computed) :
         DOMAIN builder.nodes[builder.nfa_to_dfa[computed[g]]].edges.edges
           = { char \in AsciiChars :
                 Targets(computed[g], LAMBDA edge_pattern : ExplicitMatch(char, edge_pattern))
                   # {} }
  /\ AcceptsInput(Str(<< "[", "a", "-", "b", "]" >>), Str(<< "a" >>))
  /\ AcceptsInput(Str(<< "[", "a", "-", "b", "]" >>), Str(<< "b" >>))
  /\ RejectsInput(Str(<< "[", "a", "-", "b", "]" >>), Str(<< "c" >>))
  /\ RejectsInput(Str(<< "[", "a", "-", "b", "]" >>), Str(<< "a", "b" >>))
  /\ AcceptsInput(Str(<< "[", "A", "-", "F", "]" >>), Str(<< "A" >>))
  /\ AcceptsInput(Str(<< "[", "A", "-", "F", "]" >>), Str(<< "F" >>))
  /\ RejectsInput(Str(<< "[", "A", "-", "F", "]" >>), Str(<< "G" >>))
  /\ AcceptsNothing(Str(<< "[", "z", "-", "a", "]" >>))
  /\ AcceptsNothing(Str(<< "[", "b", "-", "a", "]" >>))

\* `[a-b]` has accepted b, the end of its range.
C27_Witness ==
  /\ pattern = Str(<< "[", "a", "-", "b", "]" >>)
  /\ input = Str(<< "b" >>)
  /\ Accepted


\* A key of the key-to-state map as expand_group leaves it: ascending, so
\* without duplicates, and closed under the epsilon edges.
IsClosedGroup(key) ==
  /\ \A i \in 1..Len(key) : \A j \in 1..Len(key) : i < j => key[i] < key[j]
  /\ EpsilonClosure(Elems(key)) = Elems(key)

\* The keys the worklist has held: those of the map, and the root group.
KnownKeys == DOMAIN builder.nfa_to_dfa \cup (IF root_group = << >> THEN {} ELSE {root_group})

\* The state of a key carries what compute_group derives from the group.
DerivedFromGroup(key) ==
  LET node == builder.nodes[builder.nfa_to_dfa[key]]
      any == Targets(key, LAMBDA edge_pattern : edge_pattern.k = "AnyChar")
      lazy == Targets(key, LAMBDA edge_pattern : edge_pattern.k = "AnyCharLazy")
  IN /\ node.is_accepting = (\E i \in 1..Len(key) : nfa.nodes[key[i]].is_accepting)
     /\ node.variable = compute_group_variable(nfa, key).variable
     /\ DOMAIN node.edges.edges =
          { char \in AsciiChars :
              Targets(key, LAMBDA edge_pattern : ExplicitMatch(char, edge_pattern)) # {} }
     /\ \A char \in DOMAIN node.edges.edges :
          GroupOf(node.edges.edges[char]) =
            SortedVec(EpsilonClosure(
              Targets(key, LAMBDA edge_pattern : ExplicitMatch(char, edge_pattern)) \cup any))
     /\ IF any \cup lazy = {} THEN node.edges.default = 0
        ELSE GroupOf(node.edges.default) =
               SortedVec(EpsilonClosure(IF any # {} THEN any ELSE lazy))

\* C28: during the subset construction every key of the key-to-state map is
\* a sorted, duplicate-free, epsilon-closed vector of NFA indices and no key
\* is computed twice; at every turn of the worklist loop a key is pending
\* exactly when compute_group has not returned for it, a pending key of the
\* map has the placeholder as its state and the only key that can be out of
\* the map is the pending root group; and once the worklist is empty every
\* key of the map has the state compute_group derives from its group.
C28_SubsetConstruction ==
  /\ \A key \in KnownKeys : IsClosedGroup(key)
  /\ \A i \in 1..Len(computed) : \A j \in 1..Len(computed) :
       computed[i] = computed[j] => i = j
  /\ pc = "pending_nodes" =>
       /\ \A key \in KnownKeys : key \in builder.pending_nodes <=> key \notin Elems(computed)
       /\ builder.pending_nodes \subseteq KnownKeys
       /\ \A key \in builder.pending_nodes :
            IF key \in DOMAIN builder.nfa_to_dfa
              THEN builder.nodes[builder.nfa_to_dfa[key]] = DefaultDfaNode
              ELSE key = root_group
       /\ Elems(computed) \subseteq DOMAIN builder.nfa_to_dfa
       /\ builder.pending_nodes = {} =>
            \A key \in DOMAIN builder.nfa_to_dfa : DerivedFromGroup(key)

\* The worklist has run empty over more than two keys, one of which was met
\* again as the target of an edge after its state was made.
C28_Witness ==
  /\ pc = "pending_nodes"
  /\ builder.pending_nodes = {}
  /\ Len(computed) > 2
  /\ \E key \in DOMAIN builder.nfa_to_dfa :
       Cardinality({ n \in 1..Len(builder.nodes) :
                       builder.nfa_to_dfa[key] \in
                         { builder.nodes[n].edges.edges[char] : char \in DOMAIN builder.nodes[n].edges.edges }
                           \cup {builder.nodes[n].edges.default} }) > 1


\* The variable a DFA state is tagged with.
TagOf(dfa_idx) == dfa.nodes[dfa_idx].variable

\* The bookkeeping of the step of the run from trail[k] to trail[k + 1].
UpdateAt(k) == make_variable_update(dfa, trail[k], trail[k + 1], code.variable_map)

\* The step that entered the run of tagged states trail[k] belongs to.
OpenedAt(k) == CHOOSE j \in 1..(k - 1) :
                 TagOf(trail[j]) = NoVariable /\ \A i \in (j + 1)..k : TagOf(trail[i]) # NoVariable

\* C29: in every Dfa that Dfa::try_from returns the root is untagged and no
\* edge, explicit or default, leads from a state tagged with a variable to a
\* state tagged with another one, so that make_variable_update takes its
\* catch-all arm only between two untagged states or two states of one
\* variable; in every run of the emitted scanner each step that closes a
\* capture comes after a step that started it with only states of that
\* capture between them, no step taken in a tagged state starts a capture,
\* and in a tagged state __variable_start is the index of the character
\* that entered the run of tagged states.
C29_NoTagSwitch ==
  /\ pc \in {"generate", "run", "loop", "finalizers", "done", "unexpected_character",
             "unexpected_end", "slice_panic"} =>
       /\ TagOf(dfa.root) = NoVariable
       /\ \A n \in 1..Len(dfa.nodes) : \A t \in get_neighbors(dfa, n) :
            TagOf(n) # NoVariable /\ TagOf(t) # NoVariable => TagOf(n) = TagOf(t)
  /\ pc \in {"run", "loop", "finalizers", "done", "unexpected_character", "unexpected_end",
             "slice_panic"} =>
       \A n \in Reachable : \A t \in get_neighbors(dfa, n) :
         make_variable_update(dfa, n, t, code.variable_map).kind = "NoVariable" =>
           TagOf(n) = TagOf(t)
  /\ pc \in {"loop", "finalizers", "done", "unexpected_character", "unexpected_end",
             "slice_panic"} =>
       /\ \A k \in 1..(Len(trail) - 1) :
            /\ UpdateAt(k).kind = "EndVariable" =>
                 /\ \E j \in 1..(k - 1) :
                      /\ UpdateAt(j).kind = "StartVariable"
                      /\ \A i \in (j + 1)..k : TagOf(trail[i]) = TagOf(trail[k])
                 /\ UpdateAt(k).var = code.variable_map[TagOf(trail[k]).name]
            /\ TagOf(trail[k]) # NoVariable => UpdateAt(k).kind # "StartVariable"
       /\ TagOf(trail[Len(trail)]) # NoVariable =>
            variable_start = OpenedAt(Len(trail)) - 1

\* `A{var}B{var2}` has accepted `A1B2`: the step on `B` closed var, the step
\* on `2` started var2, and the run ended in the state of var2.
C29_Witness ==
  /\ pattern = Str(<< "A", "{", "v", "a", "r", "}", "B", "{", "v", "a", "r", "2", "}" >>)
  /\ input = Str(<< "A", "1", "B", "2" >>)
  /\ pc = "done"
  /\ UpdateAt(3).kind = "EndVariable"
  /\ UpdateAt(4).kind = "StartVariable"
  /\ TagOf(trail[5]) # NoVariable
  /\ TagOf(trail[5]) # TagOf(trail[3])
  /\ variable_start = 3


\* The DFA states reachable from a set of states, as a fixpoint over the
\* edges.
RECURSIVE ReachableFrom(_)
ReachableFrom(S) ==
  LET more == S \cup UNION { { dfa.nodes[n].edges.edges[c] : c \in DOMAIN dfa.nodes[n].edges.edges }
                             \cup ({dfa.nodes[n].edges.default} \ {0}) : n \in S }
  IN IF more = S THEN S ELSE ReachableFrom(more)

\* The targets of the edges of a DFA state, as collect_state_branch looks
\* them up.
EdgeTargets(n) ==
  { dfa.nodes[n].edges.edges[c] : c \in DOMAIN dfa.nodes[n].edges.edges }
  \cup ({dfa.nodes[n].edges.default} \ {0})

\* C30: the flood fill from the root of a Dfa ends after at most as many
\* items as the Dfa has nodes, yields no state twice and yields exactly the
\* states reachable from the root by the edges, cycles and self-loops
\* included; the state table of the code generator has a name for exactly
\* these states, so the target of every edge of every state it emits has a
\* name.
C30_FloodFill ==
  /\ pc \in {"generate", "run", "loop", "finalizers", "done", "unexpected_character",
             "unexpected_end", "slice_panic"} =>
       LET order == dfa_iter(dfa) IN
       /\ Len(order) <= Len(dfa.nodes)
       /\ \A i \in 1..Len(order) : \A j \in 1..Len(order) : order[i] = order[j] => i = j
       /\ Elems(order) = ReachableFrom({dfa.root})
       /\ DOMAIN collect_states(dfa) = ReachableFrom({dfa.root})
       /\ \A n \in DOMAIN collect_states(dfa) : EdgeTargets(n) \subseteq DOMAIN collect_states(dfa)
  /\ pc \in {"run", "loop", "finalizers", "done", "unexpected_character", "unexpected_end",
             "slice_panic"} =>
       /\ code.states = collect_states(dfa)
       /\ \A n \in DOMAIN code.states : EdgeTargets(n) \subseteq DOMAIN code.states

\* The code of a Dfa has been generated in which a state the root reaches
\* has an edge to itself and dedup has left a state the root does not reach.
C30_Witness ==
  /\ pc = "run"
  /\ \E n \in DOMAIN code.states : n \in EdgeTargets(n)
  /\ \E n \in 1..Len(dfa.nodes) : n \notin DOMAIN code.states

=============================================================================
